---- MODULE Spec2Model ----
(***************************************************************************)
(* Name matching ("entity resolution") of the halal restaurant loaders:    *)
(*   scripts/load_vancouver_foodies.py     match_listing + main            *)
(*   scripts/load_google_maps_list.py      match_name + main               *)
(*   scripts/update_google_maps_from_html.py  dictionary-key lookup        *)
(* Names are TLA+ strings; a character is a string of length 1.  Scores    *)
(* are exact fractions in lowest terms ([num, den]); the Python floats     *)
(* they stand for compare the same way for the string lengths used here.   *)
(***************************************************************************)
EXTENDS Integers, Sequences, FiniteSets, TLC

VARIABLES
    script,          \* which loader runs: "foodies", "maps" or "html"
    pc,              \* position in the loader's main()
    threshold,       \* args.threshold
    target,          \* the name of the main loop's current iteration
    result,          \* what match_listing / match_name returned for target
    rows,            \* accepted rows, in order
    unmatched,       \* unmatched entries, in order
    steps,           \* iterations done of the loop pc is in
    listings,        \* foodies: fetch_all_listings(), a sequence of [name, url]
    override_rows,   \* foodies: rows of match_overrides not yet read
    overrides,       \* foodies: the dict fetch_overrides builds
    restaurants,     \* maps: fetch_restaurants(), a sequence of [id, name]
    seen,            \* maps: lower-cased names already kept
    unique_names,    \* maps: the names kept, in order
    existing,        \* html: fetch_existing(), a sequence of [id, name, slug]
    entries,         \* html: parse_list_entries(), then consolidate_entries()
    matched_updates, \* html: (row id, payload) pairs, in order
    new_rows,        \* html: rows to insert, in order
    ambiguous,       \* html: (entry name, row names) pairs, in order
    slugs_in_use,    \* html: slugs taken
    args,            \* html: [dry_run, update_only]
    written,         \* what main() sent to the store: [patched, inserted]
    call,            \* a function of the scripts applied by itself: [fn, arguments]
    returned,        \* what call returned
    halal_sources,   \* the table halal_sources: its rows
    runs,            \* runs of a loader's upsert against halal_sources
    futures,         \* tag_menus: state of the future of each menu of to_process
    failures,        \* tag_menus: the failures list
    failures_file,   \* tag_menus: lines appended to args.failures_file
    menu_tags        \* tag_menus: batches posted to menu_tags, in order

commonVars == <<script, pc, threshold, target, result, rows, unmatched, steps>>
foodiesVars == <<listings, override_rows, overrides>>
mapsVars == <<restaurants, seen, unique_names>>
htmlVars == <<existing, entries, matched_updates, new_rows, ambiguous, slugs_in_use,
              args, written>>

libraryVars == <<call, returned>>
storeVars == <<halal_sources, runs>>
tagVars == <<futures, failures, failures_file, menu_tags>>

vars == <<commonVars, foodiesVars, mapsVars, htmlVars, libraryVars, storeVars, tagVars>>

(* Bounds of the model *)
MaxListings == 2      \* candidates in a catalog
MaxOverrideRows == 2  \* rows of match_overrides
MaxSteps == 2         \* names a loader resolves in one run

----------------------------------------------------------------------------
(* Python values *)

(* None where a dict is expected (a listing, a restaurant) *)
None == [none |-> TRUE]

(* JSON null where a string is expected: a value no name of the model takes *)
Null == "<null>"

(* A fraction n/d in lowest terms, d > 0. *)
RECURSIVE GCD(_, _)
GCD(a, b) == IF b = 0 THEN a ELSE GCD(b, a % b)

Frac(n, d) == IF n = 0 THEN [num |-> 0, den |-> 1]
              ELSE [num |-> n \div GCD(n, d), den |-> d \div GCD(n, d)]

Less(x, y) == x.num * y.den < y.num * x.den
Leq(x, y)  == x.num * y.den <= y.num * x.den

(* max(x, y, ...) of Python: the first of the largest. *)
Max2(x, y) == IF Less(x, y) THEN y ELSE x
Max3(x, y, z) == Max2(Max2(x, y), z)

Zero == Frac(0, 1)
One  == Frac(1, 1)

----------------------------------------------------------------------------
(* str methods and the re calls the scripts use *)

UPPER == "ABCDEFGHIJKLMNOPQRSTUVWXYZÉ"
LOWER == "abcdefghijklmnopqrstuvwxyzé"
DIGITS == "0123456789"

Chars(s) == {SubSeq(s, i, i) : i \in 1..Len(s)}

(* str.isspace() / the regex class \s *)
Whitespace == {" ", "\t", "\n", "\r", "\f"}

(* the regex class [a-z0-9] *)
AsciiLowerOrDigit == Chars(SubSeq(LOWER, 1, 26)) \cup Chars(DIGITS)

lower_char(c) ==
    IF \E i \in 1..Len(UPPER) : SubSeq(UPPER, i, i) = c
    THEN LET i == CHOOSE i \in 1..Len(UPPER) : SubSeq(UPPER, i, i) = c
         IN  SubSeq(LOWER, i, i)
    ELSE c

(* str.lower() *)
RECURSIVE lower(_)
lower(s) == IF s = "" THEN "" ELSE lower_char(Head(s)) \o lower(Tail(s))

(* str.strip() *)
RECURSIVE lstrip(_)
lstrip(s) == IF s # "" /\ Head(s) \in Whitespace THEN lstrip(Tail(s)) ELSE s

RECURSIVE rstrip(_)
rstrip(s) == IF s # "" /\ SubSeq(s, Len(s), Len(s)) \in Whitespace
             THEN rstrip(SubSeq(s, 1, Len(s) - 1)) ELSE s

strip(s) == rstrip(lstrip(s))

(* text.replace("&", " and ") *)
RECURSIVE replace_amp(_)
replace_amp(s) ==
    IF s = "" THEN ""
    ELSE (IF Head(s) = "&" THEN " and " ELSE Head(s)) \o replace_amp(Tail(s))

(* re.sub(r"[^a-z0-9\s]", " ", text) *)
RECURSIVE sub_non_alnum(_)
sub_non_alnum(s) ==
    IF s = "" THEN ""
    ELSE (IF Head(s) \in AsciiLowerOrDigit \cup Whitespace THEN Head(s) ELSE " ")
         \o sub_non_alnum(Tail(s))

(* str.split(): the maximal runs of non-whitespace, in order.  cur is the
   token being read. *)
RECURSIVE split_from(_, _)
split_from(s, cur) ==
    IF s = "" THEN (IF cur = "" THEN <<>> ELSE <<cur>>)
    ELSE IF Head(s) \in Whitespace
         THEN (IF cur = "" THEN <<>> ELSE <<cur>>) \o split_from(Tail(s), "")
         ELSE split_from(Tail(s), cur \o Head(s))

split(s) == split_from(s, "")

(* " ".join(tokens) *)
RECURSIVE join(_)
join(tokens) ==
    IF tokens = <<>> THEN ""
    ELSE IF Len(tokens) = 1 THEN tokens[1]
    ELSE tokens[1] \o " " \o join(Tail(tokens))

----------------------------------------------------------------------------
(* Normalizer: one copy per script *)

(* load_vancouver_foodies.py; its "caf.." entry is stored double-encoded *)
STOPWORDS == {"restaurant", "restaurants", "bar", "cafe", "cafÃ©", "bistro",
              "kitchen", "grill", "grille", "pub", "the", "and", "&",
              "lounge", "house", "eatery"}

(* load_google_maps_list.py and update_google_maps_from_html.py *)
MAPS_STOPWORDS == {"restaurant", "restaurants", "bar", "cafe", "café", "bistro",
                   "kitchen", "grill", "grille", "pub", "the", "and", "&",
                   "lounge", "house", "eatery"}

(* [t for t in tokens if t and t not in STOPWORDS] *)
RECURSIVE drop_stopwords(_, _)
drop_stopwords(tokens, stop) ==
    IF tokens = <<>> THEN <<>>
    ELSE (IF tokens[1] # "" /\ tokens[1] \notin stop THEN <<tokens[1]>> ELSE <<>>)
         \o drop_stopwords(Tail(tokens), stop)

(* a slip: the stop-words are dropped before the punctuation is replaced *)
normalize_name_stop_first(text) ==
    join(split(sub_non_alnum(join(drop_stopwords(split(replace_amp(lower(text))),
                                                 STOPWORDS)))))

(* load_vancouver_foodies.py *)
normalize_name(text) ==
    join(drop_stopwords(split(sub_non_alnum(replace_amp(lower(text)))), STOPWORDS))

tokenize_name(text) == split(normalize_name(text))

(* load_google_maps_list.py *)
maps_normalize_name(text) ==
    join(drop_stopwords(split(sub_non_alnum(replace_amp(lower(text)))), MAPS_STOPWORDS))

maps_tokenize_name(text) == split(maps_normalize_name(text))

----------------------------------------------------------------------------
(* Scorer *)

(* difflib.SequenceMatcher.find_longest_match(alo, ahi, blo, bhi) without junk
   (isjunk is None, and autojunk needs 200 characters): the longest block
   a[i:i+k] == b[j:j+k] inside the two windows; of the longest, the one that
   starts earliest in a, and of those the one that starts earliest in b.
   Indices are Python's (0-based, half-open); k = 0 when nothing matches. *)
BlockAt(a, b, i, j, k) == SubSeq(a, i + 1, i + k) = SubSeq(b, j + 1, j + k)

find_longest_match(a, b, alo, ahi, blo, bhi) ==
    LET Blocks == {<<i, j, k>> \in (alo..(ahi - 1)) \X (blo..(bhi - 1)) \X (1..(ahi - alo)) :
                      /\ i + k <= ahi
                      /\ j + k <= bhi
                      /\ BlockAt(a, b, i, j, k)}
    IN  IF Blocks = {} THEN <<alo, blo, 0>>
        ELSE LET k == CHOOSE k \in {x[3] : x \in Blocks} : \A x \in Blocks : x[3] <= k
                 Longest == {x \in Blocks : x[3] = k}
                 i == CHOOSE i \in {x[1] : x \in Longest} : \A x \in Longest : i <= x[1]
                 j == CHOOSE j \in {x[2] : x \in {y \in Longest : y[1] = i}} :
                          \A x \in Longest : x[1] = i => j <= x[2]
             IN  <<i, j, k>>

(* get_matching_blocks(): the sum of the block sizes, splitting each window at
   its longest block and matching the parts left and right of it. *)
RECURSIVE matching_size(_, _, _, _, _, _)
matching_size(a, b, alo, ahi, blo, bhi) ==
    LET m == find_longest_match(a, b, alo, ahi, blo, bhi)
        i == m[1]
        j == m[2]
        k == m[3]
    IN  IF k = 0 THEN 0
        ELSE k + (IF alo < i /\ blo < j THEN matching_size(a, b, alo, i, blo, j) ELSE 0)
               + (IF i + k < ahi /\ j + k < bhi THEN matching_size(a, b, i + k, ahi, j + k, bhi) ELSE 0)

(* a slip: the matched characters over the longer string, not over both *)
similarity_over_longer(a, b) ==
    IF Len(a) + Len(b) = 0 THEN One
    ELSE Frac(2 * matching_size(a, b, 0, Len(a), 0, Len(b)),
              IF Len(a) < Len(b) THEN Len(b) ELSE Len(a))

(* SequenceMatcher(None, a, b).ratio(): 2.0 * matches / length, 1.0 when both
   strings are empty *)
similarity(a, b) ==
    IF Len(a) + Len(b) = 0 THEN One
    ELSE Frac(2 * matching_size(a, b, 0, Len(a), 0, Len(b)), Len(a) + Len(b))

(* tokens[:n] *)
Prefix(tokens, n) == SubSeq(tokens, 1, IF Len(tokens) < n THEN Len(tokens) ELSE n)

Range(tokens) == {tokens[i] : i \in 1..Len(tokens)}

(* a slip: no `len(a_prefix) >= 2`, one equal token is a prefix match *)
prefix_match_score_any_len(a_tokens, b_tokens) ==
    IF a_tokens = <<>> \/ b_tokens = <<>> THEN Zero
    ELSE IF Prefix(a_tokens, 3) = Prefix(b_tokens, 3) THEN Frac(93, 100)
    ELSE IF Len(a_tokens) >= 2 /\ Len(b_tokens) >= 2
            /\ Prefix(a_tokens, 2) = Prefix(b_tokens, 2)
         THEN Frac(9, 10)
    ELSE Zero

prefix_match_score(a_tokens, b_tokens) ==
    IF a_tokens = <<>> \/ b_tokens = <<>> THEN Zero
    ELSE IF Prefix(a_tokens, 3) = Prefix(b_tokens, 3) /\ Len(Prefix(a_tokens, 3)) >= 2
         THEN Frac(93, 100)
    ELSE IF Len(a_tokens) >= 2 /\ Len(b_tokens) >= 2
            /\ Prefix(a_tokens, 2) = Prefix(b_tokens, 2)
         THEN Frac(9, 10)
    ELSE Zero

Min(x, y) == IF x < y THEN x ELSE y

(* a slip: the overlap counts the tokens of a that are in b, repeats included *)
token_overlap_score_by_count(a_tokens, b_tokens) ==
    IF Len(a_tokens) < 2 \/ Len(b_tokens) < 2 THEN Zero
    ELSE LET overlap == {i \in 1..Len(a_tokens) : a_tokens[i] \in Range(b_tokens)}
             ratio == Frac(Cardinality(overlap), Min(Len(a_tokens), Len(b_tokens)))
         IN  IF Leq(Frac(3, 4), ratio) THEN Frac(9, 10) ELSE Zero

token_overlap_score(a_tokens, b_tokens) ==
    IF Len(a_tokens) < 2 \/ Len(b_tokens) < 2 THEN Zero
    ELSE LET overlap == Range(a_tokens) \cap Range(b_tokens)
             ratio == Frac(Cardinality(overlap), Min(Len(a_tokens), Len(b_tokens)))
         IN  IF Leq(Frac(3, 4), ratio) THEN Frac(9, 10) ELSE Zero


----------------------------------------------------------------------------
(* Inputs of the loaders *)

(* restaurants.name of the catalog *)
RestaurantNames == {"Vij's", "The Bar", "Pho Hoa Main", "Nuba"}

(* names of the scraped Vancouver Foodies listing cards *)
ListingNames == {"Vij's Restaurant", "Cafe & Grill", "Pho Hoa", "Hoa Pho",
                 "Pho Hoa Mains", "Pho Hoa Main Grill"}

(* names of the Google Maps list; two of them differ by case only *)
MapsListNames == {"Vij's Restaurant", "Cafe & Grill", "Pho Hoa", "PHO HOA", "Nuba Lounge"}

(* rows of match_overrides as PostgREST returns them; the last two are
   malformed: a null column, and a column that is missing *)
OverrideRows ==
    {[dineout_name |-> "Vij's ", vancouverfoodies_name |-> " HOA PHO"],
     [dineout_name |-> "pho hoa main", vancouverfoodies_name |-> "Closed Place"],
     [dineout_name |-> "Nuba", vancouverfoodies_name |-> Null],
     [vancouverfoodies_name |-> "Hoa Pho"]}

(* --threshold of load_vancouver_foodies.py: its default 0.86, and a value above 1 *)
FoodiesThresholds == {Frac(86, 100), Frac(3, 2)}

(* --threshold of load_google_maps_list.py: its default 0.88, 0.95, and 0 *)
MapsThresholds == {Frac(88, 100), Frac(95, 100), Zero}

(* every name a resolver is given, as target or as candidate *)
Names == RestaurantNames \cup ListingNames \cup MapsListNames

(* the sequences over S of length at most n *)
SeqsUpTo(S, n) == UNION {[1..k -> S] : k \in 0..n}

(* fetch_all_listings(): cards with pairwise distinct urls (unique_by_url) *)
ListingCatalogs ==
    {[i \in 1..Len(names) |-> [name |-> names[i], url |-> i]] :
        names \in SeqsUpTo(ListingNames, MaxListings)}

(* fetch_restaurants(): rows with pairwise distinct ids *)
RestaurantCatalogs ==
    {[i \in 1..Len(names) |-> [id |-> i, name |-> names[i]]] :
        names \in SeqsUpTo(RestaurantNames, MaxListings)}

----------------------------------------------------------------------------
(* Resolver of load_vancouver_foodies.py *)

First(S) == CHOOSE i \in S : \A j \in S : i <= j

(* the score line of the fuzzy loop: max(similarity, prefix, overlap) *)
fuzzy_score(dineout_name, listing_name) ==
    Max3(similarity(normalize_name(dineout_name), normalize_name(listing_name)),
         prefix_match_score(tokenize_name(dineout_name), tokenize_name(listing_name)),
         token_overlap_score(tokenize_name(dineout_name), tokenize_name(listing_name)))

(* The values the resolver reads, computed once for every name of the model:
   name.strip().lower(), normalize_name(name), and the score line for every
   pair of a resolved name and a candidate name. *)
KeyOf == [t \in Names |-> lower(strip(t))]

NormOf == [t \in Names |-> normalize_name(t)]

FuzzyScore == [a \in Names, b \in Names |-> fuzzy_score(a, b)]

(* a slip: score >= best_score, so the last of the best candidates is kept *)
RECURSIVE fuzzy_loop_last_wins(_, _, _, _)
fuzzy_loop_last_wins(dineout_name, candidates, i, best) ==
    IF i > Len(candidates) THEN best
    ELSE LET score == FuzzyScore[dineout_name, candidates[i].name]
         IN  fuzzy_loop_last_wins(dineout_name, candidates, i + 1,
                                  IF Leq(best.score, score)
                                  THEN [listing |-> candidates[i], score |-> score,
                                        match_type |-> "fuzzy"]
                                  ELSE best)

(* a slip: the loop stops at the first candidate that scores 0.9 or more *)
RECURSIVE fuzzy_loop_first_good(_, _, _, _)
fuzzy_loop_first_good(dineout_name, candidates, i, best) ==
    IF i > Len(candidates) THEN best
    ELSE LET score == FuzzyScore[dineout_name, candidates[i].name]
             here == [listing |-> candidates[i], score |-> score, match_type |-> "fuzzy"]
         IN  IF Leq(Frac(9, 10), score) THEN here
             ELSE fuzzy_loop_first_good(dineout_name, candidates, i + 1,
                                        IF Less(best.score, score) THEN here ELSE best)

(* for listing, norm in listing_norms: ... if score > best_score: ... *)
RECURSIVE fuzzy_loop(_, _, _, _)
fuzzy_loop(dineout_name, candidates, i, best) ==
    IF i > Len(candidates) THEN best
    ELSE LET score == FuzzyScore[dineout_name, candidates[i].name]
         IN  fuzzy_loop(dineout_name, candidates, i + 1,
                        IF Less(best.score, score)
                        THEN [listing |-> candidates[i], score |-> score, match_type |-> "fuzzy"]
                        ELSE best)

(* the candidates the override loop would return: listing["name"].strip().lower()
   == overrides[override_key] *)
override_hits(dineout_name, candidates, overrides_) ==
    LET override_key == KeyOf[dineout_name]
    IN  IF override_key \in DOMAIN overrides_
        THEN {i \in 1..Len(candidates) :
                 KeyOf[candidates[i].name] = overrides_[override_key]}
        ELSE {}

(* the candidates the exact loop would return: dineout_norm and dineout_norm == norm *)
exact_hits(dineout_name, candidates) ==
    LET dineout_norm == NormOf[dineout_name]
    IN  {i \in 1..Len(candidates) :
            dineout_norm # "" /\ dineout_norm = NormOf[candidates[i].name]}

NoMatch == [listing |-> None, score |-> Zero, match_type |-> "fuzzy"]

(* a slip: no exact loop, every candidate goes through the fuzzy loop *)
match_listing_no_exact(dineout_name, candidates, overrides_) ==
    LET pinned == override_hits(dineout_name, candidates, overrides_)
    IN  IF pinned # {}
        THEN [listing |-> candidates[First(pinned)], score |-> One, match_type |-> "override"]
        ELSE fuzzy_loop(dineout_name, candidates, 1, NoMatch)

(* a slip: an override key answers by itself, whether or not a candidate
   carries the pinned name *)
match_listing_override_unchecked(dineout_name, candidates, overrides_) ==
    LET pinned == override_hits(dineout_name, candidates, overrides_)
        exact == exact_hits(dineout_name, candidates)
    IN  IF KeyOf[dineout_name] \in DOMAIN overrides_
        THEN [listing |-> IF pinned # {} THEN candidates[First(pinned)] ELSE None,
              score |-> One, match_type |-> "override"]
        ELSE IF exact # {}
        THEN [listing |-> candidates[First(exact)], score |-> Frac(95, 100), match_type |-> "exact"]
        ELSE fuzzy_loop(dineout_name, candidates, 1, NoMatch)

(* a slip: a target with an override key never takes the exact loop *)
match_listing_key_skips_exact(dineout_name, candidates, overrides_) ==
    LET pinned == override_hits(dineout_name, candidates, overrides_)
        exact == exact_hits(dineout_name, candidates)
    IN  IF pinned # {}
        THEN [listing |-> candidates[First(pinned)], score |-> One, match_type |-> "override"]
        ELSE IF exact # {} /\ KeyOf[dineout_name] \notin DOMAIN overrides_
        THEN [listing |-> candidates[First(exact)], score |-> Frac(95, 100), match_type |-> "exact"]
        ELSE fuzzy_loop(dineout_name, candidates, 1, NoMatch)

(* a slip: a listing that was matched is taken off the list, so a call sees
   what the calls before it left *)
match_listing_consuming(dineout_name, candidates, overrides_) ==
    LET left == SelectSeq(candidates,
                          LAMBDA listing : \A j \in 1..Len(rows) :
                                              rows[j].source_url # listing.url)
        pinned == override_hits(dineout_name, left, overrides_)
        exact == exact_hits(dineout_name, left)
    IN  IF pinned # {}
        THEN [listing |-> left[First(pinned)], score |-> One, match_type |-> "override"]
        ELSE IF exact # {}
        THEN [listing |-> left[First(exact)], score |-> Frac(95, 100), match_type |-> "exact"]
        ELSE fuzzy_loop(dineout_name, left, 1, NoMatch)

(* a slip: the exact loop runs before the override lookup *)
match_listing_exact_first(dineout_name, candidates, overrides_) ==
    LET pinned == override_hits(dineout_name, candidates, overrides_)
        exact == exact_hits(dineout_name, candidates)
    IN  IF exact # {}
        THEN [listing |-> candidates[First(exact)], score |-> Frac(95, 100), match_type |-> "exact"]
        ELSE IF pinned # {}
        THEN [listing |-> candidates[First(pinned)], score |-> One, match_type |-> "override"]
        ELSE fuzzy_loop(dineout_name, candidates, 1, NoMatch)

match_listing(dineout_name, candidates, overrides_) ==
    LET pinned == override_hits(dineout_name, candidates, overrides_)
        exact == exact_hits(dineout_name, candidates)
    IN  IF pinned # {}
        THEN [listing |-> candidates[First(pinned)], score |-> One, match_type |-> "override"]
        ELSE IF exact # {}
        THEN [listing |-> candidates[First(exact)], score |-> Frac(95, 100), match_type |-> "exact"]
        ELSE fuzzy_loop(dineout_name, candidates, 1, NoMatch)

----------------------------------------------------------------------------
(* Resolver of load_google_maps_list.py *)

maps_fuzzy_score(target_, cand_name) ==
    Max3(similarity(maps_normalize_name(target_), maps_normalize_name(cand_name)),
         prefix_match_score(maps_tokenize_name(target_), maps_tokenize_name(cand_name)),
         token_overlap_score(maps_tokenize_name(target_), maps_tokenize_name(cand_name)))

MapsNormOf == [t \in Names |-> maps_normalize_name(t)]

MapsFuzzyScore == [a \in Names, b \in Names |-> maps_fuzzy_score(a, b)]

(* for cand in candidates: return at the first equal normalized name, else
   keep the first candidate with the largest score *)
(* a slip: score >= best_score *)
RECURSIVE match_name_loop_inclusive(_, _, _, _)
match_name_loop_inclusive(target_, candidates, i, best) ==
    IF i > Len(candidates) THEN best
    ELSE IF MapsNormOf[candidates[i].name] = MapsNormOf[target_]
         THEN [match |-> candidates[i], score |-> Frac(95, 100)]
    ELSE LET score == MapsFuzzyScore[target_, candidates[i].name]
         IN  match_name_loop_inclusive(target_, candidates, i + 1,
                                       IF Leq(best.score, score)
                                       THEN [match |-> candidates[i], score |-> score]
                                       ELSE best)

RECURSIVE match_name_loop(_, _, _, _)
match_name_loop(target_, candidates, i, best) ==
    IF i > Len(candidates) THEN best
    ELSE IF MapsNormOf[candidates[i].name] = MapsNormOf[target_]
         THEN [match |-> candidates[i], score |-> Frac(95, 100)]
    ELSE LET score == MapsFuzzyScore[target_, candidates[i].name]
         IN  match_name_loop(target_, candidates, i + 1,
                             IF Less(best.score, score)
                             THEN [match |-> candidates[i], score |-> score]
                             ELSE best)

(* a slip: the loop starts at the second candidate *)
match_name_from_second(target_, candidates) ==
    IF MapsNormOf[target_] = "" THEN [match |-> None, score |-> Zero]
    ELSE match_name_loop(target_, candidates, 2, [match |-> None, score |-> Zero])

match_name(target_, candidates) ==
    IF MapsNormOf[target_] = "" THEN [match |-> None, score |-> Zero]
    ELSE match_name_loop(target_, candidates, 1, [match |-> None, score |-> Zero])

----------------------------------------------------------------------------
(* load_vancouver_foodies.py *)

(* a row of fetch_overrides' loop can be read: row["dineout_name"].strip()
   and row["vancouverfoodies_name"].strip() raise on a missing key (KeyError)
   and on None (AttributeError) *)
RowReadable(row) ==
    /\ "dineout_name" \in DOMAIN row
    /\ row.dineout_name # Null
    /\ "vancouverfoodies_name" \in DOMAIN row
    /\ row.vancouverfoodies_name # Null

IdleLibrary == /\ call = [fn |-> "none"]
               /\ returned = Null

IdleStore == /\ halal_sources = {}
             /\ runs = 0

IdleTagging == /\ futures = <<>>
               /\ failures = <<>>
               /\ failures_file = <<>>
               /\ menu_tags = <<>>

IdleFoodies == /\ listings = <<>>
               /\ override_rows = <<>>
               /\ overrides = <<>>

IdleMaps == /\ restaurants = <<>>
            /\ seen = {}
            /\ unique_names = <<>>

IdleHtml == /\ existing = <<>>
            /\ entries = <<>>
            /\ matched_updates = <<>>
            /\ new_rows = <<>>
            /\ ambiguous = <<>>
            /\ slugs_in_use = {}
            /\ args = [dry_run |-> FALSE, update_only |-> FALSE]
            /\ written = [patched |-> <<>>, inserted |-> <<>>]

InitFoodies ==
    /\ script = "foodies"
    /\ pc = "fetch_overrides"
    /\ listings \in ListingCatalogs
    /\ override_rows \in SeqsUpTo(OverrideRows, MaxOverrideRows)
    /\ overrides = <<>>
    /\ threshold \in FoodiesThresholds
    /\ target = ""
    /\ result = [listing |-> None, score |-> Zero, match_type |-> "fuzzy"]
    /\ rows = <<>>
    /\ unmatched = <<>>
    /\ steps = 0
    /\ IdleMaps
    /\ IdleHtml
    /\ IdleLibrary
    /\ IdleStore
    /\ IdleTagging

(* one iteration of fetch_overrides' loop *)
FetchOverridesRow ==
    /\ script = "foodies"
    /\ pc = "fetch_overrides"
    /\ override_rows # <<>>
    /\ LET row == Head(override_rows)
       IN  IF RowReadable(row)
           THEN /\ overrides' = (lower(strip(row.dineout_name))
                                   :> lower(strip(row.vancouverfoodies_name))) @@ overrides
                /\ override_rows' = Tail(override_rows)
                /\ pc' = pc
           ELSE /\ pc' = "raised"
                /\ UNCHANGED <<overrides, override_rows>>
    /\ UNCHANGED <<libraryVars, storeVars, tagVars>>
    /\ UNCHANGED <<script, threshold, target, result, rows, unmatched, steps, listings,
                   mapsVars, htmlVars>>

(* return overrides *)
FetchOverridesReturn ==
    /\ script = "foodies"
    /\ pc = "fetch_overrides"
    /\ override_rows = <<>>
    /\ pc' = "match"
    /\ UNCHANGED <<libraryVars, storeVars, tagVars>>
    /\ UNCHANGED <<script, threshold, target, result, rows, unmatched, steps,
                   foodiesVars, mapsVars, htmlVars>>

(* a slip: score <= args.threshold *)
is_unmatched_inclusive(entity, score, threshold_) ==
    entity = None \/ Leq(score, threshold_)

(* main()'s test `not listing or score < args.threshold` (`not match or ...`
   in load_google_maps_list.py) *)
is_unmatched(entity, score, threshold_) ==
    entity = None \/ Less(score, threshold_)

(* round(score, 3): to the nearest thousandth.  A score 2M/T is half way
   between two thousandths only when its denominator in lowest terms is 16
   times a power of 5; below 80 characters that is 16, where the float is
   exact and Python rounds to the even thousandth. *)
round3(x) ==
    LET q == (x.num * 1000) \div x.den
        r == (x.num * 1000) % x.den
    IN  IF 2 * r < x.den THEN Frac(q, 1000)
        ELSE IF 2 * r > x.den THEN Frac(q + 1, 1000)
        ELSE Frac(IF q % 2 = 0 THEN q ELSE q + 1, 1000)

(* one iteration of main's loop over restaurants; the restaurant's id is its
   position in the catalog *)
MatchRestaurant(name) ==
    /\ script = "foodies"
    /\ pc = "match"
    /\ steps < MaxSteps
    /\ LET m == match_listing(name, listings, overrides)
       IN  /\ target' = name
           /\ result' = m
           /\ IF is_unmatched(m.listing, m.score, threshold)
              THEN /\ unmatched' = Append(unmatched, [name |-> name, score |-> m.score])
                   /\ rows' = rows
              ELSE /\ rows' = Append(rows, [restaurant_id |-> steps + 1,
                                            source_url |-> m.listing.url,
                                            confidence |-> round3(m.score)])
                   /\ unmatched' = unmatched
    /\ steps' = steps + 1
    /\ UNCHANGED <<libraryVars, storeVars, tagVars>>
    /\ UNCHANGED <<script, pc, threshold, foodiesVars, mapsVars, htmlVars>>

(* the loop has read every restaurant: if rows: upsert_halal_sources(rows) *)
FoodiesDone ==
    /\ script = "foodies"
    /\ pc = "match"
    /\ pc' = "done"
    /\ written' = [written EXCEPT !.inserted = rows]
    /\ UNCHANGED <<libraryVars, storeVars, tagVars>>
    /\ UNCHANGED <<script, threshold, target, result, rows, unmatched, steps,
                   foodiesVars, mapsVars, existing, entries, matched_updates, new_rows,
                   ambiguous, slugs_in_use, args>>

----------------------------------------------------------------------------
(* load_google_maps_list.py *)

InitMaps ==
    /\ script = "maps"
    /\ pc = "unique_names"
    /\ restaurants \in RestaurantCatalogs
    /\ seen = {}
    /\ unique_names = <<>>
    /\ threshold \in MapsThresholds
    /\ target = ""
    /\ result = [match |-> None, score |-> Zero]
    /\ rows = <<>>
    /\ unmatched = <<>>
    /\ steps = 0
    /\ IdleFoodies
    /\ IdleHtml
    /\ IdleLibrary
    /\ IdleStore
    /\ IdleTagging

(* one iteration of the loop over parse_list_names(html): keep the name
   unless its lower-cased form was seen *)
KeepName(name) ==
    /\ script = "maps"
    /\ pc = "unique_names"
    /\ steps < MaxSteps
    /\ IF lower(name) \in seen
       THEN UNCHANGED <<seen, unique_names>>
       ELSE /\ seen' = seen \cup {lower(name)}
            /\ unique_names' = Append(unique_names, name)
    /\ steps' = steps + 1
    /\ UNCHANGED <<libraryVars, storeVars, tagVars>>
    /\ UNCHANGED <<script, pc, threshold, target, result, rows, unmatched, restaurants,
                   foodiesVars, htmlVars>>

(* the list is read; restaurants are fetched and the matching loop starts *)
StartMatching ==
    /\ script = "maps"
    /\ pc = "unique_names"
    /\ pc' = "match"
    /\ steps' = 0
    /\ UNCHANGED <<libraryVars, storeVars, tagVars>>
    /\ UNCHANGED <<script, threshold, target, result, rows, unmatched, mapsVars,
                   foodiesVars, htmlVars>>

(* one iteration of main's loop over unique_names *)
MatchName ==
    /\ script = "maps"
    /\ pc = "match"
    /\ steps < Len(unique_names)
    /\ LET name == unique_names[steps + 1]
           m == match_name(name, restaurants)
       IN  /\ target' = name
           /\ result' = m
           /\ IF is_unmatched(m.match, m.score, threshold)
              THEN /\ unmatched' = Append(unmatched,
                                          <<m.score, name,
                                            IF m.match = None THEN Null ELSE m.match.name>>)
                   /\ rows' = rows
              ELSE /\ rows' = Append(rows, [restaurant_id |-> m.match.id,
                                            confidence |-> round3(m.score)])
                   /\ unmatched' = unmatched
    /\ steps' = steps + 1
    /\ UNCHANGED <<libraryVars, storeVars, tagVars>>
    /\ UNCHANGED <<script, pc, threshold, mapsVars, foodiesVars, htmlVars>>

(* a slip: every row goes to the upsert, rows of one restaurant included *)
unique_rows_keep_all(todo, unique_rows) == unique_rows \o todo

(* unique_rows[(restaurant_id, source_name)] = row, then list(unique_rows.values()):
   one row per restaurant, the last one, at the place of the first *)
RECURSIVE unique_rows_loop(_, _)
unique_rows_loop(todo, unique_rows) ==
    IF todo = <<>> THEN unique_rows
    ELSE LET row == Head(todo)
             at == {i \in 1..Len(unique_rows) :
                       unique_rows[i].restaurant_id = row.restaurant_id}
         IN  IF at = {} THEN unique_rows_loop(Tail(todo), Append(unique_rows, row))
             ELSE unique_rows_loop(Tail(todo), [unique_rows EXCEPT ![First(at)] = row])

(* unmatched.sort(reverse=True, key=lambda x: x[0]): by falling score, entries
   of equal score in their order *)
RECURSIVE sort_reverse(_, _)
sort_reverse(todo, sorted) ==
    IF todo = <<>> THEN sorted
    ELSE LET x == Head(todo)
             k == Cardinality({i \in 1..Len(sorted) : Leq(x[1], sorted[i][1])})
         IN  sort_reverse(Tail(todo),
                          SubSeq(sorted, 1, k) \o <<x>> \o SubSeq(sorted, k + 1, Len(sorted)))

(* after the loop: the upsert of the rows, and the sort before the printout *)
MapsDone ==
    /\ script = "maps"
    /\ pc = "match"
    /\ steps = Len(unique_names)
    /\ pc' = "done"
    /\ written' = [written EXCEPT !.inserted = unique_rows_loop(rows, <<>>)]
    /\ unmatched' = sort_reverse(unmatched, <<>>)
    /\ UNCHANGED <<libraryVars, storeVars, tagVars>>
    /\ UNCHANGED <<script, threshold, target, result, rows, steps, mapsVars,
                   foodiesVars, existing, entries, matched_updates, new_rows,
                   ambiguous, slugs_in_use, args>>

----------------------------------------------------------------------------
(* update_google_maps_from_html.py *)

(* re.sub(r"[\x00-\x1f\x7f]", "", value): the control characters a string of
   the model can hold *)
ControlChars == {"\t", "\n", "\r", "\f"}

RECURSIVE remove_control(_)
remove_control(s) ==
    IF s = "" THEN ""
    ELSE (IF Head(s) \in ControlChars THEN "" ELSE Head(s)) \o remove_control(Tail(s))

clean_text(value) == IF value = "" THEN value ELSE strip(remove_control(value))

html_normalize_name(text) ==
    join(drop_stopwords(split(sub_non_alnum(replace_amp(lower(clean_text(text))))),
                        MAPS_STOPWORDS))

(* the regex class [a-zA-Z0-9] *)
AsciiAlnum == Chars(SubSeq(LOWER, 1, 26)) \cup Chars(SubSeq(UPPER, 1, 26)) \cup Chars(DIGITS)

(* re.sub(r"[^a-zA-Z0-9]+", "-", s): every maximal run becomes one "-" *)
RECURSIVE sub_runs(_, _)
sub_runs(s, in_run) ==
    IF s = "" THEN ""
    ELSE IF Head(s) \in AsciiAlnum THEN Head(s) \o sub_runs(Tail(s), FALSE)
    ELSE (IF in_run THEN "" ELSE "-") \o sub_runs(Tail(s), TRUE)

(* re.sub(r"-+", "-", s) *)
RECURSIVE squeeze_dashes(_, _)
squeeze_dashes(s, in_run) ==
    IF s = "" THEN ""
    ELSE IF Head(s) # "-" THEN Head(s) \o squeeze_dashes(Tail(s), FALSE)
    ELSE (IF in_run THEN "" ELSE "-") \o squeeze_dashes(Tail(s), TRUE)

(* s.strip("-") *)
RECURSIVE strip_dashes(_)
strip_dashes(s) ==
    IF s # "" /\ Head(s) = "-" THEN strip_dashes(Tail(s))
    ELSE IF s # "" /\ SubSeq(s, Len(s), Len(s)) = "-"
         THEN strip_dashes(SubSeq(s, 1, Len(s) - 1))
    ELSE s

slugify(value) ==
    LET cleaned == strip_dashes(squeeze_dashes(sub_runs(lower(strip(value)), FALSE), FALSE))
    IN  IF cleaned = "" THEN "restaurant" ELSE cleaned

(* while True: candidate = f"{base}-{counter}" ... counter += 1 *)
RECURSIVE unique_slug_from(_, _, _)
unique_slug_from(base, taken, counter) ==
    LET candidate == base \o "-" \o ToString(counter)
    IN  IF candidate \notin taken THEN candidate
        ELSE unique_slug_from(base, taken, counter + 1)

(* a slip: one suffix is tried, without the loop *)
unique_slug_once(base, taken) ==
    IF base \notin taken THEN base ELSE base \o "-2"

unique_slug(base, taken) ==
    IF base \notin taken THEN base ELSE unique_slug_from(base, taken, 2)

(* parse_reviews() returning None *)
NoReviews == -1

(* value or 0 *)
OrZero(count) == IF count = NoReviews THEN 0 ELSE count

(* not value, for a string or None *)
Falsy(value) == value = Null \/ value = ""

(* the dict parse_list_entries() appends for one button *)
Entry(name, rating, reviews_count, price, category_name, image_url, permanently_closed) ==
    [name |-> name, normalized |-> html_normalize_name(name), rating |-> rating,
     reviews_count |-> reviews_count, price |-> price, category_name |-> category_name,
     image_url |-> image_url, permanently_closed |-> permanently_closed]

(* entries of the saved Google Maps list *)
HtmlEntries ==
    {Entry("Pho Hoa", "4.1", 120, Null, "Vietnamese", Null, TRUE),
     Entry("Pho Hoa Restaurant", "4.4", 300, "$$", Null, "img2", FALSE),
     Entry("The Bar", Null, NoReviews, Null, Null, Null, FALSE),
     Entry("Nuba", "4.6", NoReviews, "$", "Lebanese", "img4", FALSE)}

(* halal_restaurants.name of the rows already stored *)
ExistingNames == {"Pho Hoa", "Pho Hoa Bar", "Nuba Cafe"}

HtmlNormOf == [t \in ExistingNames |-> html_normalize_name(t)]

(* fetch_existing(): rows with pairwise distinct ids, whose slugs were given
   by unique_slug(slugify(name)) in the order of the rows *)
RECURSIVE ExistingRows(_, _, _)
ExistingRows(names, i, taken) ==
    IF i > Len(names) THEN <<>>
    ELSE LET slug == unique_slug(slugify(names[i]), taken)
         IN  <<[id |-> i, name |-> names[i], slug |-> slug]>>
             \o ExistingRows(names, i + 1, taken \cup {slug})

ExistingCatalogs ==
    {ExistingRows(names, 1, {}) : names \in SeqsUpTo(ExistingNames, MaxListings)}

(* the body of consolidate_entries' loop for an entry whose key is in merged *)
MergeInto(current, entry) ==
    IF OrZero(entry.reviews_count) > OrZero(current.reviews_count)
    THEN entry
    ELSE [current EXCEPT
            !.price = IF Falsy(current.price) /\ ~Falsy(entry.price)
                      THEN entry.price ELSE @,
            !.category_name = IF Falsy(current.category_name) /\ ~Falsy(entry.category_name)
                              THEN entry.category_name ELSE @,
            !.image_url = IF Falsy(current.image_url) /\ ~Falsy(entry.image_url)
                          THEN entry.image_url ELSE @,
            !.permanently_closed = IF entry.permanently_closed THEN TRUE ELSE @]

(* a slip: the first entry of a key is kept as it is *)
RECURSIVE consolidate_loop_first_wins(_, _)
consolidate_loop_first_wins(todo, merged) ==
    IF todo = <<>> THEN merged
    ELSE LET entry == Head(todo)
             key == entry.normalized
             at == {i \in 1..Len(merged) : merged[i].normalized = key}
         IN  IF key = "" \/ at # {} THEN consolidate_loop_first_wins(Tail(todo), merged)
             ELSE consolidate_loop_first_wins(Tail(todo), Append(merged, entry))

(* merged is the dict's values in insertion order *)
RECURSIVE consolidate_loop(_, _)
consolidate_loop(todo, merged) ==
    IF todo = <<>> THEN merged
    ELSE LET entry == Head(todo)
             key == entry.normalized
             at == {i \in 1..Len(merged) : merged[i].normalized = key}
         IN  IF key = "" THEN consolidate_loop(Tail(todo), merged)
             ELSE IF at = {} THEN consolidate_loop(Tail(todo), Append(merged, entry))
             ELSE consolidate_loop(Tail(todo),
                                   [merged EXCEPT ![First(at)] = MergeInto(@, entry)])

(* a slip: entries of one key are not merged *)
consolidate_keep_all(entries_) == SelectSeq(entries_, LAMBDA entry : entry.normalized # "")

consolidate_entries(entries_) == consolidate_loop(entries_, <<>>)

(* a slip: the index keeps one row per key *)
existing_by_key_first(key) ==
    LET all == SelectSeq(existing, LAMBDA row : HtmlNormOf[row.name] = key)
    IN  SubSeq(all, 1, IF Len(all) > 1 THEN 1 ELSE Len(all))

(* existing_by_key.get(key, []): the rows with that normalized name, in order *)
existing_by_key(key) == SelectSeq(existing, LAMBDA row : HtmlNormOf[row.name] = key)

RowNames(matches) == [i \in 1..Len(matches) |-> matches[i].name]

Payload(entry) ==
    [category_name |-> entry.category_name, price |-> entry.price, rating |-> entry.rating,
     reviews_count |-> entry.reviews_count, image_url |-> entry.image_url,
     permanently_closed |-> entry.permanently_closed]

InitHtml ==
    /\ script = "html"
    /\ pc = "consolidate"
    /\ entries \in SeqsUpTo(HtmlEntries, MaxSteps)
    /\ existing \in ExistingCatalogs
    /\ args \in [dry_run : BOOLEAN, update_only : BOOLEAN]
    /\ matched_updates = <<>>
    /\ new_rows = <<>>
    /\ ambiguous = <<>>
    /\ slugs_in_use = {}
    /\ written = [patched |-> <<>>, inserted |-> <<>>]
    /\ threshold = Zero
    /\ target = ""
    /\ result = [match |-> None, score |-> Zero]
    /\ rows = <<>>
    /\ unmatched = <<>>
    /\ steps = 0
    /\ IdleFoodies
    /\ IdleMaps
    /\ IdleLibrary
    /\ IdleStore
    /\ IdleTagging

(* entries = consolidate_entries(parse_list_entries(html)) *)
Consolidate ==
    /\ script = "html"
    /\ pc = "consolidate"
    /\ entries' = consolidate_entries(entries)
    /\ pc' = "index"
    /\ UNCHANGED <<libraryVars, storeVars, tagVars>>
    /\ UNCHANGED <<script, threshold, target, result, rows, unmatched, steps, existing,
                   matched_updates, new_rows, ambiguous, slugs_in_use, args, written,
                   foodiesVars, mapsVars>>

(* the loop over existing: existing_by_key and slugs_in_use *)
IndexExisting ==
    /\ script = "html"
    /\ pc = "index"
    /\ slugs_in_use' = {existing[i].slug : i \in 1..Len(existing)}
    /\ pc' = "entries"
    /\ UNCHANGED <<libraryVars, storeVars, tagVars>>
    /\ UNCHANGED <<script, threshold, target, result, rows, unmatched, steps, existing,
                   entries, matched_updates, new_rows, ambiguous, args, written,
                   foodiesVars, mapsVars>>

(* one iteration of main's loop over entries *)
LookupEntry ==
    /\ script = "html"
    /\ pc = "entries"
    /\ steps < Len(entries)
    /\ LET entry == entries[steps + 1]
           matches == existing_by_key(entry.normalized)
       IN  /\ target' = entry.name
           /\ IF matches = <<>>
              THEN LET slug == unique_slug(slugify(entry.name), slugs_in_use)
                   IN  /\ slugs_in_use' = slugs_in_use \cup {slug}
                       /\ new_rows' = Append(new_rows,
                                             [name |-> entry.name, slug |-> slug,
                                              payload |-> Payload(entry)])
                       /\ UNCHANGED <<ambiguous, matched_updates>>
              ELSE IF Len(matches) > 1
              THEN /\ ambiguous' = Append(ambiguous, <<entry.name, RowNames(matches)>>)
                   /\ UNCHANGED <<slugs_in_use, new_rows, matched_updates>>
              ELSE /\ matched_updates' = Append(matched_updates,
                                                <<matches[1].id, Payload(entry)>>)
                   /\ UNCHANGED <<slugs_in_use, new_rows, ambiguous>>
    /\ steps' = steps + 1
    /\ UNCHANGED <<libraryVars, storeVars, tagVars>>
    /\ UNCHANGED <<script, pc, threshold, result, rows, unmatched, existing, entries, args,
                   written, foodiesVars, mapsVars>>

(* after the loop: the summary, then the writes unless --dry-run *)
WriteUpdates ==
    /\ script = "html"
    /\ pc = "entries"
    /\ steps = Len(entries)
    /\ written' = IF args.dry_run THEN written
                  ELSE [patched |-> matched_updates,
                        inserted |-> IF args.update_only THEN <<>> ELSE new_rows]
    /\ pc' = "done"
    /\ UNCHANGED <<libraryVars, storeVars, tagVars>>
    /\ UNCHANGED <<script, threshold, target, result, rows, unmatched, steps, existing,
                   entries, matched_updates, new_rows, ambiguous, slugs_in_use, args,
                   foodiesVars, mapsVars>>

----------------------------------------------------------------------------

Init == InitFoodies \/ InitMaps \/ InitHtml

Next ==
    \/ FetchOverridesRow
    \/ FetchOverridesReturn
    \/ \E name \in RestaurantNames : MatchRestaurant(name)
    \/ FoodiesDone
    \/ \E name \in MapsListNames : KeepName(name)
    \/ StartMatching
    \/ MatchName
    \/ MapsDone
    \/ Consolidate
    \/ IndexExisting
    \/ LookupEntry
    \/ WriteUpdates

Spec == Init /\ [][Next]_vars

----------------------------------------------------------------------------
(* The functions of the scripts applied by themselves.  script says whose
   copy of the function is applied; no loader runs. *)

NoLoader ==
    /\ threshold = Zero
    /\ target = ""
    /\ result = [match |-> None, score |-> Zero]
    /\ rows = <<>>
    /\ unmatched = <<>>
    /\ steps = 0
    /\ IdleFoodies
    /\ IdleMaps
    /\ IdleHtml

LoaderUnchanged ==
    UNCHANGED <<script, threshold, target, result, rows, unmatched, steps,
                foodiesVars, mapsVars, htmlVars>>

(* Bound of the names given to normalize_name: words in a name *)
MaxWords == 2

(* pieces of restaurant names: punctuation, "&", stop-words, upper case, a
   non-ASCII letter, a tab *)
Words == {"Joe's Café", "& Grill", "The", "PHO", "Bar-B-Q", "Hoa\tMain"}

Texts == {join(words) : words \in SeqsUpTo(Words, MaxWords)}

(* normalize_name of script_ *)
normalize_name_of(script_, text) ==
    CASE script_ = "foodies" -> normalize_name(text)
      [] script_ = "maps" -> maps_normalize_name(text)
      [] script_ = "html" -> html_normalize_name(text)

InitNormalizer ==
    /\ script \in {"foodies", "maps", "html"}
    /\ pc = "call"
    /\ call \in [fn : {"normalize_name"}, text : Texts]
    /\ returned = Null
    /\ NoLoader
    /\ IdleStore
    /\ IdleTagging

(* normalize_name(text) *)
NormalizeName ==
    /\ pc = "call"
    /\ call.fn = "normalize_name"
    /\ returned' = normalize_name_of(script, call.text)
    /\ pc' = "returned"
    /\ UNCHANGED <<call, storeVars, tagVars>>
    /\ LoaderUnchanged

(* normalize_name(normalize_name(text)): the function applied to what it
   returned for call.text *)
NormalizeAgain ==
    /\ pc = "returned"
    /\ call.fn = "normalize_name"
    /\ call' = [fn |-> "normalize_name", text |-> call.text, of |-> returned]
    /\ returned' = normalize_name_of(script, returned)
    /\ pc' = "again"
    /\ UNCHANGED <<storeVars, tagVars>>
    /\ LoaderUnchanged

NextNormalizer == NormalizeName \/ NormalizeAgain

SpecNormalizer == InitNormalizer /\ [][NextNormalizer]_vars

(* Bound of the token lists given to the two token heuristics *)
MaxTokens == 4

Tokens == {"pho", "hoa", "main"}

TokenLists == SeqsUpTo(Tokens, MaxTokens)

(* names given to the score line of the resolvers' loops *)
ScoreNames == {"Tide", "Diet", "Kebab House Downtown", "Kebab House Main St",
               "Pho Hoa", "Hoa Pho", "The Bar"}

(* the score line: similarity of the normalized names, the two token
   heuristics on their tokens, and the max of the three *)
score_line(script_, a, b) ==
    LET a_norm == normalize_name_of(script_, a)
        b_norm == normalize_name_of(script_, b)
        a_tokens == split(a_norm)
        b_tokens == split(b_norm)
    IN  [similarity |-> similarity(a_norm, b_norm),
         prefix |-> prefix_match_score(a_tokens, b_tokens),
         overlap |-> token_overlap_score(a_tokens, b_tokens),
         score |-> Max3(similarity(a_norm, b_norm),
                        prefix_match_score(a_tokens, b_tokens),
                        token_overlap_score(a_tokens, b_tokens))]

InitScorer ==
    /\ script \in {"foodies", "maps"}
    /\ pc = "call"
    /\ call \in [fn : {"score"}, a : ScoreNames, b : ScoreNames]
             \cup [fn : {"prefix_match_score", "token_overlap_score"},
                   a_tokens : TokenLists, b_tokens : TokenLists]
    /\ call.fn # "score" => script = "foodies"
    /\ returned = Null
    /\ NoLoader
    /\ IdleStore
    /\ IdleTagging

(* the score of candidate b for target a *)
ApplyScore ==
    /\ pc = "call"
    /\ call.fn = "score"
    /\ returned' = score_line(script, call.a, call.b)
    /\ pc' = "returned"
    /\ UNCHANGED <<call, storeVars, tagVars>>
    /\ LoaderUnchanged

(* the score of candidate a for target b, after that of b for a *)
ApplyScoreSwapped ==
    /\ pc = "returned"
    /\ call.fn = "score"
    /\ call' = [fn |-> "score", a |-> call.b, b |-> call.a, of |-> returned]
    /\ returned' = score_line(script, call.b, call.a)
    /\ pc' = "again"
    /\ UNCHANGED <<storeVars, tagVars>>
    /\ LoaderUnchanged

ApplyPrefixMatchScore ==
    /\ pc = "call"
    /\ call.fn = "prefix_match_score"
    /\ returned' = prefix_match_score(call.a_tokens, call.b_tokens)
    /\ pc' = "returned"
    /\ UNCHANGED <<call, storeVars, tagVars>>
    /\ LoaderUnchanged

ApplyTokenOverlapScore ==
    /\ pc = "call"
    /\ call.fn = "token_overlap_score"
    /\ returned' = token_overlap_score(call.a_tokens, call.b_tokens)
    /\ pc' = "returned"
    /\ UNCHANGED <<call, storeVars, tagVars>>
    /\ LoaderUnchanged

NextScorer ==
    \/ ApplyScore
    \/ ApplyScoreSwapped
    \/ ApplyPrefixMatchScore
    \/ ApplyTokenOverlapScore

SpecScorer == InitScorer /\ [][NextScorer]_vars

(* names given to a resolver together with lists that may hold them *)
SelfNames == {"Vij's", "Vij's Restaurant", "The Bar", "Pho Hoa Main", "Pho Hoa Mains"}

(* override maps as fetch_overrides builds them *)
OverrideMaps == {<<>>, ("vij's" :> "pho hoa main")}

InitResolver ==
    /\ script \in {"foodies", "maps"}
    /\ pc = "call"
    /\ \E name \in SelfNames, names \in SeqsUpTo(SelfNames, MaxListings) :
          IF script = "foodies"
          THEN \E overrides_ \in OverrideMaps :
                  call = [fn |-> "resolve", name |-> name,
                          candidates |-> [i \in 1..Len(names) |->
                                             [name |-> names[i], url |-> i]],
                          overrides |-> overrides_]
          ELSE call = [fn |-> "resolve", name |-> name,
                       candidates |-> [i \in 1..Len(names) |->
                                          [id |-> i, name |-> names[i]]]]
    /\ returned = Null
    /\ NoLoader
    /\ IdleStore
    /\ IdleTagging

ApplyMatchListing ==
    /\ pc = "call"
    /\ call.fn = "resolve"
    /\ script = "foodies"
    /\ returned' = match_listing(call.name, call.candidates, call.overrides)
    /\ pc' = "returned"
    /\ UNCHANGED <<call, storeVars, tagVars>>
    /\ LoaderUnchanged

ApplyMatchName ==
    /\ pc = "call"
    /\ call.fn = "resolve"
    /\ script = "maps"
    /\ returned' = match_name(call.name, call.candidates)
    /\ pc' = "returned"
    /\ UNCHANGED <<call, storeVars, tagVars>>
    /\ LoaderUnchanged

NextResolver == ApplyMatchListing \/ ApplyMatchName

SpecResolver == InitResolver /\ [][NextResolver]_vars

----------------------------------------------------------------------------
(* The loaders' writes to halal_sources, run after run.  A run is main() with
   the rows its loop accepted; the same catalog, source, overrides and
   threshold give the same rows in every run. *)

(* Bound of the rows a run accepts *)
MaxRows == 2

(* Bound of the runs of a loader *)
MaxRuns == 2

(* "source_name" of the rows a loader writes *)
SOURCE_NAME(script_) ==
    IF script_ = "foodies" THEN "Vancouver Foodies" ELSE "Google Maps List"

(* round(score, 3) of accepted scores *)
Confidences == {round3(Frac(9, 10)), round3(One)}

(* rows of main()'s loop in load_vancouver_foodies.py: one row at most for a
   restaurant of the catalog, in the order of the catalog *)
FoodiesAccepted ==
    {rows_ \in SeqsUpTo([restaurant_id : 1..MaxRows, source_url : 1..2,
                         confidence : Confidences], MaxRows) :
        \A i, j \in 1..Len(rows_) :
            i < j => rows_[i].restaurant_id < rows_[j].restaurant_id}

(* rows of main()'s loop in load_google_maps_list.py: one row for a list name,
   two names may match one restaurant *)
MapsAccepted ==
    SeqsUpTo([restaurant_id : 1..2, confidence : Confidences], MaxRows)

(* the row as it is posted; "source_url": None is 0 *)
posted(script_, row) ==
    [restaurant_id |-> row.restaurant_id,
     source_name |-> SOURCE_NAME(script_),
     source_url |-> IF script_ = "foodies" THEN row.source_url ELSE 0,
     confidence |-> row.confidence]

(* halal_sources as earlier runs of the two loaders left it: one row at most
   for a restaurant and a source *)
StoredBefore ==
    SUBSET {[restaurant_id |-> id, source_name |-> SOURCE_NAME(script_),
             source_url |-> IF script_ = "foodies" THEN 2 ELSE 0,
             confidence |-> Frac(1, 2)] :
               id \in {1, 3}, script_ \in {"foodies", "maps"}}

same_key(a, b) ==
    a.restaurant_id = b.restaurant_id /\ a.source_name = b.source_name

(* DELETE halal_sources?source_name=eq.{source_name} *)
delete_existing_sources(table, source_name) ==
    {r \in table : r.source_name # source_name}

(* the batch has two rows of one (restaurant_id, source_name): the insert
   would touch a row twice, and the request is refused *)
refused(batch) ==
    \E i, j \in 1..Len(batch) : i < j /\ same_key(batch[i], batch[j])

(* POST halal_sources?on_conflict=restaurant_id,source_name with
   resolution=merge-duplicates: a row of the batch replaces the stored row of
   its key, or is inserted; a refused request changes nothing *)
upsert_halal_sources(table, batch) ==
    IF refused(batch) THEN table
    ELSE {r \in table : \A i \in 1..Len(batch) : ~same_key(r, batch[i])}
            \cup {batch[i] : i \in 1..Len(batch)}

InitUpsert ==
    /\ script \in {"foodies", "maps"}
    /\ pc = "main"
    /\ threshold = Zero
    /\ target = ""
    /\ result = [match |-> None, score |-> Zero]
    /\ unmatched = <<>>
    /\ steps = 0
    /\ IdleFoodies
    /\ IdleMaps
    /\ IdleHtml
    /\ returned = Null
    /\ call \in {[fn |-> "main", reset |-> reset] : reset \in BOOLEAN}
    /\ rows \in (IF script = "foodies" THEN FoodiesAccepted ELSE MapsAccepted)
    /\ halal_sources \in StoredBefore
    /\ runs = 0
    /\ IdleTagging

(* a run of load_vancouver_foodies.py: if args.reset: delete_existing_sources;
   if rows: upsert_halal_sources(rows) *)
LoadVancouverFoodies ==
    /\ script = "foodies"
    /\ call.fn = "main"
    /\ runs < MaxRuns
    /\ LET kept == IF call.reset
                   THEN delete_existing_sources(halal_sources, SOURCE_NAME(script))
                   ELSE halal_sources
           batch == [i \in 1..Len(rows) |-> posted(script, rows[i])]
       IN  /\ halal_sources' = IF rows = <<>> THEN kept
                                ELSE upsert_halal_sources(kept, batch)
           /\ pc' = IF rows # <<>> /\ refused(batch) THEN "raised" ELSE "done"
    /\ runs' = runs + 1
    /\ UNCHANGED <<call, returned, tagVars>>
    /\ LoaderUnchanged

(* a run of load_google_maps_list.py: if args.reset: delete_existing_sources;
   if rows: upsert_halal_sources(list(unique_rows.values())) *)
LoadGoogleMapsList ==
    /\ script = "maps"
    /\ call.fn = "main"
    /\ runs < MaxRuns
    /\ LET kept == IF call.reset
                   THEN delete_existing_sources(halal_sources, SOURCE_NAME(script))
                   ELSE halal_sources
           unique_rows == unique_rows_loop(rows, <<>>)
           batch == [i \in 1..Len(unique_rows) |-> posted(script, unique_rows[i])]
       IN  /\ halal_sources' = IF rows = <<>> THEN kept
                                ELSE upsert_halal_sources(kept, batch)
           /\ pc' = IF rows # <<>> /\ refused(batch) THEN "raised" ELSE "done"
    /\ runs' = runs + 1
    /\ UNCHANGED <<call, returned, tagVars>>
    /\ LoaderUnchanged

NextUpsert ==
    \/ LoadVancouverFoodies
    \/ LoadGoogleMapsList

SpecUpsert == InitUpsert /\ [][NextUpsert]_vars

----------------------------------------------------------------------------
(* The slugs of new rows: slug = unique_slug(slugify(name), slugs_in_use);
   slugs_in_use.add(slug), as main() of update_google_maps_from_html.py, of
   ingest_google_maps_places.py and of load_supabase.py do it.  The stored
   rows may carry any slugs. *)

StoredSlugs == {"pho-hoa", "pho-hoa-2", "pho-hoa-3", "nuba"}

SlugNames == {"Pho Hoa", "Pho-Hoa!", "Nuba"}

(* rows already stored, with pairwise distinct slugs *)
SlugCatalogs ==
    {[i \in 1..Len(slugs) |-> [id |-> i, name |-> slugs[i], slug |-> slugs[i]]] :
        slugs \in {q \in SeqsUpTo(StoredSlugs, MaxListings) :
                      \A i, j \in 1..Len(q) : q[i] = q[j] => i = j}}

InitSlugs ==
    /\ script \in {"html", "ingest", "supabase"}
    /\ pc = "slugs"
    /\ existing \in (IF script = "supabase" THEN {<<>>} ELSE SlugCatalogs)
    /\ slugs_in_use = {existing[i].slug : i \in 1..Len(existing)}
    /\ new_rows = <<>>
    /\ entries = <<>>
    /\ matched_updates = <<>>
    /\ ambiguous = <<>>
    /\ args = [dry_run |-> FALSE, update_only |-> FALSE]
    /\ written = [patched |-> <<>>, inserted |-> <<>>]
    /\ threshold = Zero
    /\ target = ""
    /\ result = [match |-> None, score |-> Zero]
    /\ rows = <<>>
    /\ unmatched = <<>>
    /\ steps = 0
    /\ IdleFoodies
    /\ IdleMaps
    /\ IdleLibrary
    /\ IdleStore
    /\ IdleTagging

(* a row that is new gets its slug *)
AssignSlug(name) ==
    /\ pc = "slugs"
    /\ steps < MaxSteps
    /\ LET base == slugify(name)
           slug == unique_slug(base, slugs_in_use)
       IN  /\ call' = [fn |-> "unique_slug", base |-> base, existing |-> slugs_in_use]
           /\ returned' = slug
           /\ slugs_in_use' = slugs_in_use \cup {slug}
           /\ new_rows' = Append(new_rows, [name |-> name, slug |-> slug])
    /\ steps' = steps + 1
    /\ UNCHANGED <<storeVars, tagVars>>
    /\ UNCHANGED <<script, pc, threshold, target, result, rows, unmatched, existing,
                   entries, matched_updates, ambiguous, args, written, foodiesVars,
                   mapsVars>>

NextSlugs == \E name \in SlugNames : AssignSlug(name)

SpecSlugs == InitSlugs /\ [][NextSlugs]_vars

----------------------------------------------------------------------------
(* call_openai of tag_menus_ai.py: the loop over the attempts.  steps counts
   the requests sent; call holds the responses received, last_error and the
   seconds slept. *)

(* Bound of args.retries *)
MaxRetries == 3

(* the request raised (a timeout, a refused connection): there is no response *)
NoResponse == [status |-> 0, content |-> Null]

RETRY_STATUS == {429, 500, 502, 503, 504}

(* message contents that json.loads accepts *)
JsonTexts == {"{\"contains_pork\": \"no\"}"}

(* what a request can come back with: a status that is retried, another HTTP
   error, and 200 with a content that is empty, blank, missing (null), cut
   short, or a JSON object *)
Responses ==
    {NoResponse}
    \cup {[status |-> code, content |-> "error"] : code \in RETRY_STATUS \cup {400}}
    \cup {[status |-> 200, content |-> content] :
             content \in {"", " \n", Null, "{\"contains_pork\":"} \cup JsonTexts}

(* a slip: range(1, retries + 2) *)
attempts_left_inclusive(attempt, retries) == attempt <= retries

(* for attempt in range(1, retries + 1), after `attempt` requests *)
attempts_left(attempt, retries) == attempt < retries

(* time.sleep(min(2 ** attempt, 10)) *)
backoff(attempt) == IF 2 ^ attempt < 10 THEN 2 ^ attempt ELSE 10

InitOpenAI ==
    /\ script = "tag_menus"
    /\ pc = "loop"
    /\ call \in [fn : {"call_openai"}, retries : (-1)..MaxRetries, responses : {<<>>},
                  last_error : {Null}, slept : {0}]
    /\ returned = Null
    /\ NoLoader
    /\ IdleStore
    /\ IdleTagging

(* one pass of the loop: requests.post and what follows it *)
Request(resp) ==
    /\ call.fn = "call_openai"
    /\ pc = "loop"
    /\ attempts_left(steps, call.retries)
    /\ steps' = steps + 1
    /\ LET attempt == steps + 1
           received == [call EXCEPT !.responses = Append(@, resp)]
       IN  IF resp = NoResponse
           THEN /\ pc' = "raised"
                /\ returned' = "ConnectionError"
                /\ call' = received
           ELSE IF resp.status \in RETRY_STATUS
           THEN /\ pc' = "loop"
                /\ returned' = returned
                /\ call' = [received EXCEPT
                               !.last_error = "OpenAI error " \o ToString(resp.status)
                                                 \o ": " \o resp.content,
                               !.slept = @ + backoff(attempt)]
           ELSE IF resp.status >= 400
           THEN /\ pc' = "raised"
                /\ returned' = "HTTPError"
                /\ call' = received
           ELSE IF resp.content = Null
           THEN /\ pc' = "raised"
                /\ returned' = "AttributeError"
                /\ call' = received
           ELSE IF strip(resp.content) = ""
           THEN /\ pc' = "loop"
                /\ returned' = returned
                /\ call' = [received EXCEPT
                               !.last_error = "Empty response from OpenAI",
                               !.slept = @ + backoff(attempt)]
           ELSE IF strip(resp.content) \notin JsonTexts
           THEN /\ pc' = "raised"
                /\ returned' = "JSONDecodeError"
                /\ call' = received
           ELSE /\ pc' = "returned"
                /\ returned' = strip(resp.content)
                /\ call' = received
    /\ UNCHANGED <<storeVars, tagVars>>
    /\ UNCHANGED <<script, threshold, target, result, rows, unmatched,
                   foodiesVars, mapsVars, htmlVars>>

(* the loop is over: raise RuntimeError(last_error or "OpenAI call failed") *)
GiveUp ==
    /\ call.fn = "call_openai"
    /\ pc = "loop"
    /\ ~attempts_left(steps, call.retries)
    /\ pc' = "raised"
    /\ returned' = "RuntimeError: " \o (IF call.last_error = Null
                                        THEN "OpenAI call failed" ELSE call.last_error)
    /\ UNCHANGED <<call, storeVars, tagVars>>
    /\ LoaderUnchanged

NextOpenAI ==
    \/ \E resp \in Responses : Request(resp)
    \/ GiveUp

SpecOpenAI == InitOpenAI /\ [][NextOpenAI]_vars

----------------------------------------------------------------------------
(* main() of tag_menus_ai.py from the thread pool on.  The workers run
   build_row, one future for a menu of to_process; the main thread takes the
   futures as they are done.  A menu is "tagged" (call_openai returns),
   "failing" (call_openai raises) or "empty" (no menu text).  Menus of one
   kind differ in their id only, and neither build_row nor the loop reads it:
   of the futures of one kind the one with the least id is done first and
   taken first, the kinds in any order. *)

(* Bounds of to_process: menus of each kind *)
MaxTagged == 26
MaxFailing == 1
MaxEmpty == 1

(* if len(rows) >= 25 *)
BATCH_ROWS == 25

FailuresFiles == {"data/tag_failures.json", "tag_failures.json"}

(* os.path.dirname(path): what stands before the last "/" *)
RECURSIVE dirname(_)
dirname(path) ==
    IF path = "" THEN ""
    ELSE IF SubSeq(path, Len(path), Len(path)) = "/" THEN SubSeq(path, 1, Len(path) - 1)
    ELSE dirname(SubSeq(path, 1, Len(path) - 1))

(* to_process: the kinds of its menus; the menu id is the position *)
MenuLists ==
    {[i \in 1..(a + b + c) |-> IF i <= a THEN "tagged"
                               ELSE IF i <= a + b THEN "failing" ELSE "empty"] :
        a \in 0..MaxTagged, b \in 0..MaxFailing, c \in 0..MaxEmpty}

(* the futures of that kind in that state *)
FuturesIn(kind, state) ==
    {i \in 1..Len(futures) : call.to_process[i] = kind /\ futures[i] = state}

(* build_row(menu) makes a row: a menu with text, or any menu with --tag-empty *)
builds_row(kind, tag_empty) == kind = "tagged" \/ (kind = "empty" /\ tag_empty)

InitTagMenus ==
    /\ script = "tag_menus"
    /\ pc = "pool"
    /\ call \in [fn : {"main"}, tag_empty : BOOLEAN, failures_file : FailuresFiles,
                  to_process : MenuLists]
    /\ futures = [i \in 1..Len(call.to_process) |-> "running"]
    /\ failures = <<>>
    /\ failures_file = <<>>
    /\ menu_tags = <<>>
    /\ returned = Null
    /\ NoLoader
    /\ IdleStore

(* a worker ends build_row(menu): the future has its row or its exception *)
WorkerDone(kind) ==
    /\ call.fn = "main"
    /\ pc = "pool"
    /\ FuturesIn(kind, "running") # {}
    /\ futures' = [futures EXCEPT ![First(FuturesIn(kind, "running"))] = "done"]
    /\ UNCHANGED <<pc, call, returned, storeVars, failures, failures_file, menu_tags>>
    /\ LoaderUnchanged

(* one pass of `for future in as_completed(future_map)` *)
TakeFuture(kind, posted_ok) ==
    /\ call.fn = "main"
    /\ pc = "pool"
    /\ FuturesIn(kind, "done") # {}
    /\ LET menu_id == First(FuturesIn(kind, "done"))
           rows_ == IF builds_row(kind, call.tag_empty)
                    THEN Append(rows, [menu_id |-> menu_id])
                    ELSE rows
       IN  /\ futures' = [futures EXCEPT ![menu_id] = "taken"]
           /\ IF kind = "failing"
              THEN /\ failures' = Append(failures, [menu_id |-> menu_id])
                   /\ IF dirname(call.failures_file) = ""
                      THEN /\ pc' = "raised"
                           /\ returned' = "FileNotFoundError"
                           /\ failures_file' = failures_file
                      ELSE /\ failures_file' = Append(failures_file, [menu_id |-> menu_id])
                           /\ UNCHANGED <<pc, returned>>
                   /\ UNCHANGED <<rows, steps, menu_tags>>
              ELSE /\ steps' = steps + 1
                   /\ UNCHANGED <<failures, failures_file>>
                   /\ IF Len(rows_) >= BATCH_ROWS
                      THEN IF posted_ok
                           THEN /\ menu_tags' = Append(menu_tags, rows_)
                                /\ rows' = <<>>
                                /\ UNCHANGED <<pc, returned>>
                           ELSE /\ pc' = "raised"
                                /\ returned' = "RuntimeError: Supabase error"
                                /\ rows' = rows_
                                /\ menu_tags' = menu_tags
                      ELSE /\ rows' = rows_
                           /\ UNCHANGED <<pc, returned, menu_tags>>
    /\ UNCHANGED <<call, storeVars>>
    /\ UNCHANGED <<script, threshold, target, result, unmatched, foodiesVars, mapsVars,
                   htmlVars>>

(* every future was taken: if rows: post them; then the run is over *)
LastPost(posted_ok) ==
    /\ call.fn = "main"
    /\ pc = "pool"
    /\ \A i \in 1..Len(futures) : futures[i] = "taken"
    /\ IF rows = <<>>
       THEN /\ pc' = "done"
            /\ UNCHANGED <<rows, menu_tags, returned>>
       ELSE IF posted_ok
       THEN /\ menu_tags' = Append(menu_tags, rows)
            /\ pc' = "done"
            /\ UNCHANGED <<rows, returned>>
       ELSE /\ pc' = "raised"
            /\ returned' = "RuntimeError: Supabase error"
            /\ UNCHANGED <<rows, menu_tags>>
    /\ UNCHANGED <<call, storeVars, futures, failures, failures_file>>
    /\ UNCHANGED <<script, threshold, target, result, unmatched, steps, foodiesVars,
                   mapsVars, htmlVars>>

NextTagMenus ==
    \/ \E kind \in {"tagged", "failing", "empty"} : WorkerDone(kind)
    \/ \E kind \in {"tagged", "failing", "empty"}, posted_ok \in BOOLEAN :
          TakeFuture(kind, posted_ok)
    \/ \E posted_ok \in BOOLEAN : LastPost(posted_ok)

SpecTagMenus == InitTagMenus /\ [][NextTagMenus]_vars

----------------------------------------------------------------------------
(* Properties *)

(* main() of load_vancouver_foodies.py has resolved target: result is
   match_listing(target, listings, overrides) *)
FoodiesResolved == script = "foodies" /\ steps > 0

(* main() of load_google_maps_list.py has resolved target: result is
   match_name(target, restaurants) *)
MapsResolved == script = "maps" /\ pc \in {"match", "done"} /\ steps > 0

(* the candidates an override pins target to, and those whose normalized name
   is target's *)
PinnedTo(name) ==
    IF KeyOf[name] \in DOMAIN overrides
    THEN {i \in 1..Len(listings) : KeyOf[listings[i].name] = overrides[KeyOf[name]]}
    ELSE {}

SameNorm(name) == {i \in 1..Len(listings) : NormOf[listings[i].name] = NormOf[name]}

MapsSameNorm(name) ==
    {i \in 1..Len(restaurants) : MapsNormOf[restaurants[i].name] = MapsNormOf[name]}

(* C1: a name whose normalized form is empty never takes part in a positive
   score: the resolvers return score 0 for a target that normalizes to "",
   and never return a candidate that normalizes to "" with a positive score. *)
C1_EmptyNameScoresZero ==
    /\ FoodiesResolved =>
         /\ NormOf[target] = "" => result.score = Zero
         /\ (result.listing # None /\ NormOf[result.listing.name] = "")
               => result.score = Zero
    /\ MapsResolved =>
         /\ MapsNormOf[target] = "" => result.score = Zero
         /\ (result.match # None /\ MapsNormOf[result.match.name] = "")
               => result.score = Zero

(* C2: when target's lower-cased, trimmed form is an override key and some
   candidate's lower-cased, trimmed name is the mapped value, match_listing
   returns the first such candidate with score 1.0 and method override. *)
C2_OverridePrecedence ==
    (FoodiesResolved /\ PinnedTo(target) # {}) =>
        result = [listing |-> listings[First(PinnedTo(target))], score |-> One,
                  match_type |-> "override"]

(* an override wins although another candidate has target's normalized name *)
C2_Witness ==
    /\ FoodiesResolved
    /\ result.match_type = "override"
    /\ \E i \in SameNorm(target) : NormOf[target] # "" /\ listings[i] # result.listing

(* C3: a result whose method is override is accepted whatever the threshold:
   the step that resolves it appends a row and leaves unmatched alone. *)
C3_OverrideAccepted ==
    [][(script = "foodies" /\ steps' = steps + 1 /\ result'.match_type = "override")
          => (Len(rows') = Len(rows) + 1 /\ unmatched' = unmatched)]_vars

(* C4 as stated: when no override applies and some candidate has target's
   normalized name, the resolvers return the first such candidate with score
   0.95 (method exact), whatever the name normalizes to. *)
C4_ExactShortcutAnyName ==
    /\ (FoodiesResolved /\ PinnedTo(target) = {} /\ SameNorm(target) # {}) =>
          result = [listing |-> listings[First(SameNorm(target))],
                    score |-> Frac(95, 100), match_type |-> "exact"]
    /\ (MapsResolved /\ MapsSameNorm(target) # {}) =>
          result = [match |-> restaurants[First(MapsSameNorm(target))],
                    score |-> Frac(95, 100)]

(* C4: when no override applies, target's normalized name is not empty and
   some candidate has that normalized name, the resolvers return the first
   such candidate with score 0.95 (method exact), whatever the other
   candidates score. *)
C4_ExactShortcut ==
    /\ (FoodiesResolved /\ PinnedTo(target) = {} /\ NormOf[target] # ""
          /\ SameNorm(target) # {}) =>
          result = [listing |-> listings[First(SameNorm(target))],
                    score |-> Frac(95, 100), match_type |-> "exact"]
    /\ (MapsResolved /\ MapsNormOf[target] # "" /\ MapsSameNorm(target) # {}) =>
          result = [match |-> restaurants[First(MapsSameNorm(target))],
                    score |-> Frac(95, 100)]

(* the exact candidate is returned although an earlier candidate scores 0.95
   or more against target *)
C4_Witness ==
    /\ FoodiesResolved
    /\ result.match_type = "exact"
    /\ \E i \in 1..Len(listings) :
          /\ i < First(SameNorm(target))
          /\ Leq(Frac(95, 100), FuzzyScore[target, listings[i].name])

(* the fuzzy loop's inputs: the exact shortcut did not fire, and the largest
   score of a candidate with the first candidate that has it *)
FoodiesFuzzyCase ==
    /\ FoodiesResolved
    /\ PinnedTo(target) = {}
    /\ ~(NormOf[target] # "" /\ SameNorm(target) # {})

MapsFuzzyCase ==
    /\ MapsResolved
    /\ ~(MapsNormOf[target] # "" /\ MapsSameNorm(target) # {})

FoodiesScores == {FuzzyScore[target, listings[i].name] : i \in 1..Len(listings)}

MapsScores == {MapsFuzzyScore[target, restaurants[i].name] : i \in 1..Len(restaurants)}

Largest(scores) == CHOOSE s \in scores : \A t \in scores : Leq(t, s)

FoodiesArgMax ==
    First({i \in 1..Len(listings) :
              FuzzyScore[target, listings[i].name] = Largest(FoodiesScores)})

MapsArgMax ==
    First({i \in 1..Len(restaurants) :
              MapsFuzzyScore[target, restaurants[i].name] = Largest(MapsScores)})

(* C5 as stated: when neither the override nor the exact shortcut fires and
   the candidate list is not empty, the resolvers return the first candidate
   that has the largest score, with that score (method fuzzy). *)
C5_FuzzyArgMaxAnyList ==
    /\ (FoodiesFuzzyCase /\ listings # <<>>) =>
          result = [listing |-> listings[FoodiesArgMax],
                    score |-> Largest(FoodiesScores), match_type |-> "fuzzy"]
    /\ (MapsFuzzyCase /\ restaurants # <<>>) =>
          result = [match |-> restaurants[MapsArgMax], score |-> Largest(MapsScores)]

(* C5: when neither the override nor the exact shortcut fires, the resolvers
   return the first candidate that has the largest score, with that score
   (method fuzzy), provided that score is positive; when the list is empty or
   every candidate scores 0 they return no candidate with score 0.0, and so
   does match_name for every target whose normalized name is empty. *)
C5_FuzzyArgMax ==
    /\ FoodiesFuzzyCase =>
          IF listings # <<>> /\ Less(Zero, Largest(FoodiesScores))
          THEN result = [listing |-> listings[FoodiesArgMax],
                         score |-> Largest(FoodiesScores), match_type |-> "fuzzy"]
          ELSE result = [listing |-> None, score |-> Zero, match_type |-> "fuzzy"]
    /\ MapsFuzzyCase =>
          IF MapsNormOf[target] # "" /\ restaurants # <<>>
             /\ Less(Zero, Largest(MapsScores))
          THEN result = [match |-> restaurants[MapsArgMax], score |-> Largest(MapsScores)]
          ELSE result = [match |-> None, score |-> Zero]

(* two different candidates share the largest score, and the first is returned *)
C5_Witness ==
    /\ FoodiesFuzzyCase
    /\ Len(listings) = 2
    /\ listings[1].name # listings[2].name
    /\ FuzzyScore[target, listings[1].name] = FuzzyScore[target, listings[2].name]
    /\ Less(Zero, FuzzyScore[target, listings[1].name])
    /\ result.listing = listings[1]

(* C6: with an empty candidate list the resolvers return no candidate with
   score 0.0, whatever the target, the overrides and the threshold, and the
   loaders put every target in unmatched and none in rows. *)
C6_EmptyCatalogUnmatched ==
    /\ (FoodiesResolved /\ listings = <<>>) =>
          /\ result = [listing |-> None, score |-> Zero, match_type |-> "fuzzy"]
          /\ pc # "raised"
          /\ rows = <<>>
          /\ Len(unmatched) = steps
          /\ unmatched[steps] = [name |-> target, score |-> Zero]
    /\ (MapsResolved /\ restaurants = <<>>) =>
          /\ result = [match |-> None, score |-> Zero]
          /\ rows = <<>>
          /\ Len(unmatched) = steps
          /\ unmatched[steps] = <<Zero, target, Null>>

(* a target that has an override is resolved against an empty list *)
C6_Witness ==
    /\ FoodiesResolved
    /\ listings = <<>>
    /\ lower(strip(target)) \in DOMAIN overrides
    /\ unmatched # <<>>

(* the step of a loader's main loop that resolves one target; the result it
   leaves is not an override *)
ResolveStep ==
    /\ script \in {"foodies", "maps"}
    /\ pc = "match"
    /\ steps' = steps + 1
    /\ script = "foodies" => result'.match_type # "override"

Accepted == Len(rows') = Len(rows) + 1 /\ unmatched' = unmatched

Unmatched == Len(unmatched') = Len(unmatched) + 1 /\ rows' = rows

NoCandidate ==
    IF script = "foodies" THEN result'.listing = None ELSE result'.match = None

(* C7 as stated: a target whose result is not an override is put in unmatched
   exactly when score < threshold and in rows exactly when score >= threshold,
   and in exactly one of the two. *)
C7_ThresholdOnly ==
    [][ResolveStep => IF Less(result'.score, threshold) THEN Unmatched ELSE Accepted]_vars

(* C7: a target whose result is not an override is put in unmatched exactly
   when no candidate was returned or score < threshold, and in rows otherwise
   (score >= threshold with a candidate); it is put in exactly one of the two. *)
C7_ThresholdDecision ==
    [][ResolveStep => IF NoCandidate \/ Less(result'.score, threshold)
                      THEN Unmatched ELSE Accepted]_vars

(* a score equal to the threshold was accepted, and another target was not *)
C7_Witness ==
    /\ MapsResolved
    /\ result.match # None
    /\ result.score = threshold
    /\ Len(rows) = 1
    /\ Len(unmatched) = 1

(* the rows of existing whose normalized name is key *)
RowsKeyed(key) == {i \in 1..Len(existing) : HtmlNormOf[existing[i].name] = key}

(* C8: an entry of the html loader whose normalized key is shared by more than
   one existing row is recorded in ambiguous with the names of all those
   rows; no row is inserted for it, and none of those rows is patched. *)
C8_DuplicateKeyAmbiguous ==
    (script = "html" /\ pc \in {"entries", "done"}) =>
        \A k \in 1..steps :
            LET entry == entries[k]
                keyed == RowsKeyed(entry.normalized)
                ids == {existing[i].id : i \in keyed}
            IN  Cardinality(keyed) > 1 =>
                  /\ \E j \in 1..Len(ambiguous) :
                        /\ ambiguous[j][1] = entry.name
                        /\ Len(ambiguous[j][2]) = Cardinality(keyed)
                        /\ Range(ambiguous[j][2]) = {existing[i].name : i \in keyed}
                  /\ \A j \in 1..Len(new_rows) : new_rows[j].name # entry.name
                  /\ \A j \in 1..Len(matched_updates) : matched_updates[j][1] \notin ids
                  /\ \A j \in 1..Len(written.inserted) :
                        written.inserted[j].name # entry.name
                  /\ \A j \in 1..Len(written.patched) : written.patched[j][1] \notin ids

(* a run that writes: one entry was ambiguous, another was inserted *)
C8_Witness ==
    /\ script = "html"
    /\ pc = "done"
    /\ ~args.dry_run
    /\ ambiguous # <<>>
    /\ written.inserted # <<>>

(* C9: every row of match_overrides is read without raising: a well-formed
   row is added to the overrides, a row with a missing or null column is
   skipped, and the loop goes on with the next row. *)
C9_MalformedOverrideSkipped ==
    [][(script = "foodies" /\ pc = "fetch_overrides" /\ override_rows # <<>>) =>
          /\ pc' # "raised"
          /\ override_rows' = Tail(override_rows)
          /\ \A key \in DOMAIN overrides : key \in DOMAIN overrides'
          /\ RowReadable(Head(override_rows)) =>
                lower(strip(Head(override_rows).dineout_name)) \in DOMAIN overrides'
      ]_vars

(* C10: the score a resolver returns is in [0, 1]; it is 1.0 when the method
   is override and 0.95 when the method is exact. *)
C10_ScoreRange ==
    /\ FoodiesResolved =>
          /\ Leq(Zero, result.score) /\ Leq(result.score, One)
          /\ result.match_type = "override" => result.score = One
          /\ result.match_type = "exact" => result.score = Frac(95, 100)
    /\ MapsResolved =>
          /\ Leq(Zero, result.score) /\ Leq(result.score, One)

(* a fuzzy result whose score is the character similarity, above both token
   heuristics and below 1 *)
C10_Witness ==
    /\ FoodiesResolved
    /\ result.match_type = "fuzzy"
    /\ result.listing # None
    /\ Less(Frac(93, 100), result.score)
    /\ Less(result.score, One)

(* C11: normalize_name is idempotent in each of the three scripts: applied to
   what it returned, it returns the same string. *)
C11_NormalizeIdempotent ==
    (call.fn = "normalize_name" /\ pc = "again") => returned = call.of

(* a name that normalize_name changes, normalized twice *)
C11_Witness ==
    /\ call.fn = "normalize_name"
    /\ pc = "again"
    /\ call.of # call.text
    /\ call.of # ""
    /\ script = "html"

(* C12: normalize_name("Joe's Café & Grill") is "joe s": the punctuation is
   stripped, "&" is expanded, and "café" and "grill" are dropped as
   stop-words. *)
C12_JoesCafeFixture ==
    (call.fn = "normalize_name" /\ pc = "returned" /\ call.text = "Joe's Café & Grill"
       /\ script \in {"foodies", "maps"})
        => returned = "joe s"

(* C14 as stated: resolving a non-empty name against a list that holds the
   same name gives a score of at least 0.95. *)
C14_SelfScoreAnyName ==
    (call.fn = "resolve" /\ pc = "returned" /\ call.name # ""
       /\ \E i \in 1..Len(call.candidates) : call.candidates[i].name = call.name)
        => Leq(Frac(95, 100), returned.score)

(* C14: resolving a name whose normalized form is not empty against a list
   that holds the same name gives a score of at least 0.95. *)
C14_SelfScore ==
    (call.fn = "resolve" /\ pc = "returned"
       /\ normalize_name_of(script, call.name) # ""
       /\ \E i \in 1..Len(call.candidates) : call.candidates[i].name = call.name)
        => Leq(Frac(95, 100), returned.score)

(* match_name finds the name itself behind another candidate *)
C14_Witness ==
    /\ call.fn = "resolve"
    /\ pc = "returned"
    /\ script = "maps"
    /\ Len(call.candidates) = 2
    /\ call.candidates[1].name # call.name
    /\ returned = [match |-> call.candidates[2], score |-> Frac(95, 100)]
    /\ call.candidates[2].name = call.name

(* C13: the score is symmetric: the score line gives (b, a) what it gave
   (a, b), in each component (similarity, prefix, overlap) and in their max. *)
C13_ScoreSymmetric ==
    (call.fn = "score" /\ pc = "again") => returned = call.of

(* C15: the score of "Kebab House Downtown" against "Kebab House Main St" is
   at least 0.90. *)
C15_KebabHouseFixture ==
    (call.fn = "score" /\ pc = "returned" /\ call.a = "Kebab House Downtown"
       /\ call.b = "Kebab House Main St")
        => Leq(Frac(9, 10), returned.score)

(* the first n tokens of both lists are the same *)
SamePrefix(a_tokens, b_tokens, n) ==
    /\ Min(Len(a_tokens), n) = Min(Len(b_tokens), n)
    /\ \A i \in 1..Min(Len(a_tokens), n) : a_tokens[i] = b_tokens[i]

(* what the resolvers are to return for target from the lists as they are,
   whatever was resolved before: the pinned candidate, else the first with
   target's normalized name, else the first with the largest positive score *)
FoodiesExpected ==
    IF PinnedTo(target) # {}
    THEN [listing |-> listings[First(PinnedTo(target))], score |-> One,
          match_type |-> "override"]
    ELSE IF NormOf[target] # "" /\ SameNorm(target) # {}
    THEN [listing |-> listings[First(SameNorm(target))], score |-> Frac(95, 100),
          match_type |-> "exact"]
    ELSE IF listings # <<>> /\ Less(Zero, Largest(FoodiesScores))
    THEN [listing |-> listings[FoodiesArgMax], score |-> Largest(FoodiesScores),
          match_type |-> "fuzzy"]
    ELSE [listing |-> None, score |-> Zero, match_type |-> "fuzzy"]

MapsExpected ==
    IF MapsNormOf[target] = "" THEN [match |-> None, score |-> Zero]
    ELSE IF MapsSameNorm(target) # {}
    THEN [match |-> restaurants[First(MapsSameNorm(target))], score |-> Frac(95, 100)]
    ELSE IF restaurants # <<>> /\ Less(Zero, Largest(MapsScores))
    THEN [match |-> restaurants[MapsArgMax], score |-> Largest(MapsScores)]
    ELSE [match |-> None, score |-> Zero]

(* C16: a resolver leaves the candidate list and the override map as they
   are, and what it returns for a target depends on the target and on them
   only: the same target resolved again gets the same result, in whatever
   order and however often targets are resolved. *)
C16_OrderIndependent ==
    [][(script \in {"foodies", "maps"} /\ pc = "match" /\ steps' = steps + 1) =>
          /\ listings' = listings
          /\ overrides' = overrides
          /\ restaurants' = restaurants
          /\ (steps > 0 /\ target' = target) => result' = result
          /\ script = "foodies" => result' = FoodiesExpected'
          /\ script = "maps" => result' = MapsExpected'
      ]_vars

(* the same name was resolved twice, with the same fuzzy score both times *)
C16_Witness ==
    /\ FoodiesResolved
    /\ Len(unmatched) = 2
    /\ unmatched[1] = unmatched[2]
    /\ Less(Zero, unmatched[1].score)
    /\ target = unmatched[2].name

(* the permutations of 1..n, and a list in the order a permutation gives *)
Perms(n) == {p \in [1..n -> 1..n] : \A i, j \in 1..n : p[i] = p[j] => i = j}

Permuted(candidates, p) == [i \in 1..Len(candidates) |-> candidates[p[i]]]

(* C17: permuting the candidate list changes neither the score nor the
   method; when it changes the returned candidate, the other candidate has the
   same score against the target. *)
C17_CandidateOrder ==
    /\ FoodiesResolved =>
          \A p \in Perms(Len(listings)) :
              LET r == match_listing(target, Permuted(listings, p), overrides)
              IN  /\ r.score = result.score
                  /\ r.match_type = result.match_type
                  /\ (r.listing = None) <=> (result.listing = None)
                  /\ r.listing # None =>
                        FuzzyScore[target, r.listing.name]
                            = FuzzyScore[target, result.listing.name]
    /\ MapsResolved =>
          \A p \in Perms(Len(restaurants)) :
              LET r == match_name(target, Permuted(restaurants, p))
              IN  /\ r.score = result.score
                  /\ (r.match = None) <=> (result.match = None)
                  /\ r.match # None =>
                        MapsFuzzyScore[target, r.match.name]
                            = MapsFuzzyScore[target, result.match.name]

(* a permutation of the list changes the candidate a fuzzy match returns *)
C17_Witness ==
    /\ FoodiesResolved
    /\ result.match_type = "fuzzy"
    /\ \E p \in Perms(Len(listings)) :
          LET r == match_listing(target, Permuted(listings, p), overrides)
          IN  r.listing # None /\ r.listing.name # result.listing.name

(* the stored row of a restaurant and a source *)
StoredFor(table, restaurant_id, source_name) ==
    {r \in table : r.restaurant_id = restaurant_id /\ r.source_name = source_name}

(* C18: a run of a loader leaves one row at most for a restaurant and a
   source, a row for every restaurant it accepted, and a second run on the
   same inputs leaves halal_sources as the first run left it. *)
C18_IdempotentUpsert ==
    [][(call.fn = "main" /\ runs' = runs + 1) =>
          /\ \A r1, r2 \in halal_sources' : same_key(r1, r2) => r1 = r2
          /\ \A i \in 1..Len(rows) :
                StoredFor(halal_sources', rows[i].restaurant_id,
                          SOURCE_NAME(script)) # {}
          /\ runs >= 1 => halal_sources' = halal_sources
      ]_vars

(* load_google_maps_list.py has run twice on two accepted names of one
   restaurant, with different scores; the row of the later name is stored *)
C18_Witness ==
    /\ call.fn = "main"
    /\ script = "maps"
    /\ runs = 2
    /\ Len(rows) = 2
    /\ rows[1].restaurant_id = rows[2].restaurant_id
    /\ rows[1].confidence # rows[2].confidence
    /\ StoredFor(halal_sources, rows[2].restaurant_id, SOURCE_NAME(script))
          = {posted(script, rows[2])}

(* C19: prefix_match_score is 0.93 when the first three tokens of both lists
   are equal and are at least 2 tokens; otherwise 0.90 when both lists have
   at least 2 tokens and the same first two; otherwise 0. *)
C19_PrefixMatchScore ==
    (call.fn = "prefix_match_score" /\ pc = "returned") =>
        LET a == call.a_tokens
            b == call.b_tokens
        IN  returned =
              IF SamePrefix(a, b, 3) /\ Min(Len(a), 3) >= 2 THEN Frac(93, 100)
              ELSE IF Len(a) >= 2 /\ Len(b) >= 2 /\ SamePrefix(a, b, 2) THEN Frac(9, 10)
              ELSE Zero

(* two equal lists of one token score 0 *)
C19_Witness ==
    /\ call.fn = "prefix_match_score"
    /\ pc = "returned"
    /\ Len(call.a_tokens) = 1
    /\ call.a_tokens = call.b_tokens
    /\ returned = Zero

(* the distinct tokens common to both lists *)
CommonTokens(a_tokens, b_tokens) ==
    {t \in Tokens : (\E i \in 1..Len(a_tokens) : a_tokens[i] = t)
                    /\ (\E j \in 1..Len(b_tokens) : b_tokens[j] = t)}

(* C20: token_overlap_score is 0.90 exactly when both lists have at least 2
   tokens and the distinct common tokens are at least 0.75 of the shorter
   list's token count, and 0 otherwise; that ratio is never above 1. *)
C20_TokenOverlapScore ==
    (call.fn = "token_overlap_score" /\ pc = "returned") =>
        LET a == call.a_tokens
            b == call.b_tokens
            common == Cardinality(CommonTokens(a, b))
            shorter == Min(Len(a), Len(b))
        IN  /\ common <= shorter
            /\ returned = IF Len(a) >= 2 /\ Len(b) >= 2 /\ 4 * common >= 3 * shorter
                          THEN Frac(9, 10) ELSE Zero

(* every token of a list with a repeated token is in the other list, and the
   score is 0 *)
C20_Witness ==
    /\ call.fn = "token_overlap_score"
    /\ pc = "returned"
    /\ Len(call.a_tokens) >= 2
    /\ Len(call.b_tokens) >= 2
    /\ CommonTokens(call.a_tokens, call.b_tokens) = Range(call.a_tokens)
    /\ Cardinality(Range(call.a_tokens)) < Len(call.a_tokens)
    /\ returned = Zero


(* C21: when the target's key is in the override map and no candidate has the
   pinned name, match_listing returns what it returns with an empty map: the
   method is exact or fuzzy, never override. *)
C21_OverrideMiss ==
    (FoodiesResolved /\ KeyOf[target] \in DOMAIN overrides /\ PinnedTo(target) = {})
        => /\ result = match_listing(target, listings, <<>>)
           /\ result.match_type \in {"exact", "fuzzy"}

(* an override key without its pinned candidate, and the exact loop answers *)
C21_Witness ==
    /\ FoodiesResolved
    /\ KeyOf[target] \in DOMAIN overrides
    /\ PinnedTo(target) = {}
    /\ result.match_type = "exact"

(* C22: normalize_name of load_vancouver_foodies.py, of
   load_google_maps_list.py and of update_google_maps_from_html.py return the
   same string for every name. *)
C22_NormalizersAgree ==
    (call.fn = "normalize_name" /\ pc = "returned")
        => /\ returned = normalize_name(call.text)
           /\ returned = maps_normalize_name(call.text)
           /\ returned = html_normalize_name(call.text)

(* C23: match_name(target, candidates) returns the candidate and the score
   of match_listing(target, candidates, {}). *)
C23_ResolversAgree ==
    (call.fn = "resolve" /\ pc = "returned" /\ script = "maps")
        => LET m == match_listing(call.name, call.candidates, <<>>)
           IN  /\ returned.score = m.score
               /\ (returned.match = None) <=> (m.listing = None)
               /\ returned.match # None /\ m.listing # None
                     => returned.match.name = m.listing.name

(* C24: a resolver returns no candidate exactly when the score it returns
   is 0. *)
C24_NoneIffZero ==
    /\ FoodiesResolved => ((result.listing = None) <=> (result.score = Zero))
    /\ MapsResolved => ((result.match = None) <=> (result.score = Zero))

(* a candidate was scored 0 against the target and none is returned *)
C24_Witness ==
    /\ MapsResolved
    /\ restaurants # <<>>
    /\ MapsNormOf[target] # ""
    /\ result.match = None
    /\ result.score = Zero

(* the existing rows that share an entry's normalized key *)
SharingKey(entry) ==
    {j \in 1..Len(existing) : HtmlNormOf[existing[j].name] = entry.normalized}

(* C25: every entry the loop of update_google_maps_from_html.py has read is
   in exactly one of new_rows, ambiguous and matched_updates, by whether 0,
   more than 1 or exactly 1 existing rows share its normalized key; an
   existing row id is in at most one matched update. *)
C25_Classified ==
    (script = "html" /\ pc \in {"entries", "done"}) =>
        /\ Len(new_rows) + Len(ambiguous) + Len(matched_updates) = steps
        /\ \A i \in 1..steps :
              LET entry == entries[i]
                  n == Cardinality(SharingKey(entry))
              IN  /\ (n = 0) <=> \E k \in 1..Len(new_rows) : new_rows[k].name = entry.name
                  /\ (n > 1) <=> \E k \in 1..Len(ambiguous) : ambiguous[k][1] = entry.name
                  /\ (n = 1) <=> \E k \in 1..Len(matched_updates) :
                                    \E j \in SharingKey(entry) :
                                        matched_updates[k] = <<existing[j].id, Payload(entry)>>
        /\ \A k, l \in 1..Len(matched_updates) :
              matched_updates[k][1] = matched_updates[l][1] => k = l

(* a run that found a matched update and a new row *)
C25_Witness ==
    /\ script = "html"
    /\ pc = "done"
    /\ steps = 2
    /\ Len(matched_updates) = 1
    /\ Len(new_rows) = 1

(* the place of the first entry with that key *)
FirstAt(entries_, key) == First({i \in 1..Len(entries_) : entries_[i].normalized = key})

(* the largest reviews_count, a missing one counted 0, of the entries with
   that key *)
MostReviews(entries_, key) ==
    LET counts == {OrZero(entries_[i].reviews_count) :
                      i \in {j \in 1..Len(entries_) : entries_[j].normalized = key}}
    IN  CHOOSE c \in counts : \A d \in counts : d <= c

(* C26: consolidate_entries returns one entry for every non-empty normalized
   key of its input and no other, in the order the keys first appear; the
   entry's reviews_count, a missing one counted 0, is the largest of the
   entries with its key. *)
C26_Consolidated ==
    [][(script = "html" /\ pc = "consolidate" /\ pc' = "index") =>
          /\ \A k \in 1..Len(entries') :
                /\ entries'[k].normalized # ""
                /\ \E i \in 1..Len(entries) : entries[i].normalized = entries'[k].normalized
                /\ OrZero(entries'[k].reviews_count)
                      = MostReviews(entries, entries'[k].normalized)
          /\ \A i \in 1..Len(entries) :
                entries[i].normalized # "" =>
                    \E k \in 1..Len(entries') : entries'[k].normalized = entries[i].normalized
          /\ \A k, l \in 1..Len(entries') :
                k < l => FirstAt(entries, entries'[k].normalized)
                            < FirstAt(entries, entries'[l].normalized)
      ]_vars

(* two entries of one key were merged: the name and the count of the one
   with more reviews, the category of the other *)
C26_Witness ==
    /\ script = "html"
    /\ pc = "index"
    /\ Len(entries) = 1
    /\ entries[1].name = "Pho Hoa Restaurant"
    /\ entries[1].reviews_count = 300
    /\ entries[1].category_name = "Vietnamese"

(* C27: when an entry given to consolidate_entries is permanently closed,
   the merged entry of its key is permanently closed. *)
C27_ClosedSticky ==
    [][(script = "html" /\ pc = "consolidate" /\ pc' = "index") =>
          \A i \in 1..Len(entries) :
              (entries[i].normalized # "" /\ entries[i].permanently_closed) =>
                  \E k \in 1..Len(entries') :
                      /\ entries'[k].normalized = entries[i].normalized
                      /\ entries'[k].permanently_closed
      ]_vars

(* C28: unique_slug returns a slug that is not in the set it is given: base,
   or base-N for the least N >= 2 that is free; the slugs assigned in a run
   are pairwise distinct and differ from the slugs of the stored rows. *)
C28_SlugsUnique ==
    call.fn = "unique_slug" =>
        /\ returned \notin call.existing
        /\ \/ returned = call.base
           \/ \E n \in 2..(Cardinality(call.existing) + 2) :
                 /\ returned = call.base \o "-" \o ToString(n)
                 /\ call.base \in call.existing
                 /\ \A m \in 2..(n - 1) :
                       (call.base \o "-" \o ToString(m)) \in call.existing
        /\ \A k, l \in 1..Len(new_rows) : new_rows[k].slug = new_rows[l].slug => k = l
        /\ \A k \in 1..Len(new_rows), j \in 1..Len(existing) :
              new_rows[k].slug # existing[j].slug

(* two new rows of one base, with the base and base-2 stored already *)
C28_Witness ==
    /\ call.fn = "unique_slug"
    /\ Len(new_rows) = 2
    /\ new_rows[1].slug = "pho-hoa-3"
    /\ new_rows[2].slug = "pho-hoa-4"

(* the response is one the loop retries after: a status of RETRY_STATUS, or
   a content that is empty once stripped *)
Retried(resp) ==
    /\ resp # NoResponse
    /\ \/ resp.status \in RETRY_STATUS
       \/ resp.status < 400 /\ resp.content # Null /\ strip(resp.content) = ""

AllRetried == \A i \in 1..Len(call.responses) : Retried(call.responses[i])

AllowedRequests == IF call.retries > 0 THEN call.retries ELSE 0

LastResponse == call.responses[Len(call.responses)]

(* call_openai ended in its last line, raise RuntimeError(...) *)
RuntimeErrorRaised ==
    /\ pc = "raised"
    /\ Len(returned) >= 12
    /\ SubSeq(returned, 1, 12) = "RuntimeError"

(* what C29 says of the requests and of the RuntimeError: at most `retries`
   requests, a further request only after a retried response, no request with
   retries <= 0, an HTTP error outside RETRY_STATUS raised at once, and
   RuntimeError with the last recorded error exactly when all `retries`
   attempts were retried failures *)
RetryDiscipline ==
    /\ steps = Len(call.responses)
    /\ steps <= AllowedRequests
    /\ \A i \in 1..(Len(call.responses) - 1) : Retried(call.responses[i])
    /\ pc = "loop" => AllRetried
    /\ (steps > 0 /\ LastResponse # NoResponse /\ LastResponse.status >= 400
          /\ LastResponse.status \notin RETRY_STATUS)
            => pc = "raised" /\ returned = "HTTPError"
    /\ RuntimeErrorRaised
            <=> (pc # "loop" /\ AllRetried /\ steps = AllowedRequests)
    /\ RuntimeErrorRaised =>
            returned = "RuntimeError: " \o (IF call.last_error = Null
                                            THEN "OpenAI call failed"
                                            ELSE call.last_error)
    /\ (steps > 0 /\ Retried(LastResponse)) =>
            call.last_error = (IF LastResponse.status \in RETRY_STATUS
                               THEN "OpenAI error " \o ToString(LastResponse.status)
                                       \o ": " \o LastResponse.content
                               ELSE "Empty response from OpenAI")
    /\ pc = "returned" => steps > 0 /\ ~Retried(LastResponse)

(* C29 as stated: call_openai returns at the first response that is neither
   a retried status nor an empty content (and no other HTTP error). *)
C29_ReturnsAtFirstOther ==
    call.fn = "call_openai" =>
        /\ RetryDiscipline
        /\ (steps > 0 /\ LastResponse # NoResponse /\ ~Retried(LastResponse)
              /\ LastResponse.status < 400)
                => pc = "returned"

(* C29: call_openai sends at most `retries` requests, one more only after a
   retried response; at the first response that is neither retried nor an
   HTTP error it returns the parsed content, or raises the parse error when
   the content is missing or no JSON; it raises RuntimeError with the last
   recorded error exactly when all `retries` attempts were retried failures. *)
C29_RetryLoop ==
    call.fn = "call_openai" =>
        /\ RetryDiscipline
        /\ (steps > 0 /\ LastResponse # NoResponse /\ ~Retried(LastResponse)
              /\ LastResponse.status < 400)
                => IF LastResponse.content # Null
                      /\ strip(LastResponse.content) \in JsonTexts
                   THEN pc = "returned" /\ returned = strip(LastResponse.content)
                   ELSE pc = "raised"
                        /\ returned \in {"AttributeError", "JSONDecodeError"}

(* three attempts, all retried: a 429 first, an empty content last *)
C29_Witness ==
    /\ call.fn = "call_openai"
    /\ pc = "raised"
    /\ steps = 3
    /\ call.responses[1].status = 429
    /\ returned = "RuntimeError: Empty response from OpenAI"

(* the batches of menu_tags that hold the menu's row *)
PostedIn(menu_id) ==
    {k \in 1..Len(menu_tags) :
        \E j \in 1..Len(menu_tags[k]) : menu_tags[k][j].menu_id = menu_id}

TimesIn(list, menu_id) ==
    Cardinality({j \in 1..Len(list) : list[j].menu_id = menu_id})

(* the menu's row was posted once and it has no failure *)
PostedOnce(menu_id) ==
    /\ Cardinality(PostedIn(menu_id)) = 1
    /\ \A k \in PostedIn(menu_id) : TimesIn(menu_tags[k], menu_id) = 1
    /\ TimesIn(failures, menu_id) = 0

(* the menu's failure is in the list and in the file, once, and it has no row *)
FailureRecorded(menu_id) ==
    /\ TimesIn(failures, menu_id) = 1
    /\ TimesIn(failures_file, menu_id) = 1
    /\ PostedIn(menu_id) = {}

(* the menu has no text and was passed over: no row, no failure *)
SkippedEmpty(menu_id) ==
    /\ call.to_process[menu_id] = "empty"
    /\ futures[menu_id] = "taken"
    /\ PostedIn(menu_id) = {}
    /\ TimesIn(failures, menu_id) = 0

(* C30: in whatever order the futures are done, when the run of
   tag_menus_ai.py is over and no write to Supabase failed, every menu of
   to_process has its row posted once (batches of 25 rows, and a last one), or
   its failure recorded in the list and in the file, or was passed over as
   empty, and no row built is left unposted. *)
C30_AccountedOnce ==
    (call.fn = "main" /\ pc \in {"done", "raised"}
       /\ returned # "RuntimeError: Supabase error") =>
        /\ \A menu_id \in 1..Len(call.to_process) :
              \/ PostedOnce(menu_id)
              \/ FailureRecorded(menu_id)
              \/ SkippedEmpty(menu_id)
        /\ \A k \in 1..(Len(menu_tags) - 1) : Len(menu_tags[k]) = BATCH_ROWS
        /\ \A j \in 1..Len(rows) : PostedIn(rows[j].menu_id) # {}

====
